---- MODULE Spec2Model ----
(***************************************************************************)
(* A model of src/qsl_generator.py (QSLCardGenerator): the paginator       *)
(* (generate_cards), the card composer (create_qsl_card), the table row    *)
(* geometry (draw_contact_table) and the info panel                        *)
(* (draw_additional_info_section) with its measured iterative-fit loops.   *)
(*                                                                         *)
(* Text is a sequence of one-character strings, so that upper-casing,      *)
(* slicing and concatenation are computed as Python computes them.  The    *)
(* banner is built as a TLA+ string with the numbers formatted in decimal. *)
(* Fractions of the configuration (y_percent, height_percent) are kept in  *)
(* thousandths; the values used are ones for which Python's                *)
(* int(height * fraction) equals the exact integer quotient.               *)
(* Text measurement (ImageDraw.textbbox) is outside the repository: every  *)
(* call either raises or returns one of a small set of widths.             *)
(***************************************************************************)
EXTENDS Integers, Sequences, FiniteSets, TLC

VARIABLES
    config,           \* self.config (the keys the modelled code reads)
    contacts,         \* self.contacts, in input order
    batch_by_call,    \* argument of generate_cards (main: the -b flag, else the configured value)
    pc,               \* position inside generate_cards / create_qsl_card
    grouped,          \* the defaultdict, as its ordered sequence of items
    idx,              \* loop index: into contacts while grouping, into grouped after
    contact_groups,   \* the chunks of the callsign being processed
    card_num,         \* enumerate(contact_groups, 1)
    pages,            \* argument tuples of the create_qsl_card calls made so far
    page,             \* arguments of the create_qsl_card call in progress
    canvas,           \* drawing steps issued on the card in progress
    saved,            \* file names written by card.save, in order
    cards_generated,  \* the counter returned by generate_cards
    fit,              \* one run of an iterative-fit block of the info panel
    tbl,              \* one run of the row calculation of draw_contact_table
    info,             \* one run of the row loop of draw_additional_info_section
    fmt,              \* one call of a field formatter of format_data
    upd,              \* one start of the program: main, __init__, check_for_updates
    load,             \* one call of load_config
    op                \* one configuration file operation and the files it touches

vars == << config, contacts, batch_by_call, pc, grouped, idx, contact_groups,
           card_num, pages, page, canvas, saved, cards_generated, fit, tbl, info, fmt,
           upd, load, op >>

genVars == << contacts, batch_by_call, pc, grouped, idx, contact_groups,
              card_num, pages, page, canvas, saved, cards_generated >>

-----------------------------------------------------------------------------
(* Bounds of the model *)

MaxContacts == 4      \* longest input drawn from the record pool
MaxCap == 3           \* largest page capacity drawn for the pool inputs
MaxTextLen == 12      \* longest text handed to an iterative-fit block

-----------------------------------------------------------------------------
(* Python helpers *)

Min(a, b) == IF a < b THEN a ELSE b
Max(a, b) == IF a > b THEN a ELSE b

\* s[:n] for n >= 0
Take(s, n) == SubSeq(s, 1, Min(n, Len(s)))

\* s[:-n] for n > 0
DropLast(s, n) == SubSeq(s, 1, Max(Len(s) - n, 0))

\* str.upper() on one character (the characters the model uses)
UpperChar(c) ==
    CASE c = "a" -> "A"
      [] c = "b" -> "B"
      [] c = "c" -> "C"
      [] c = "d" -> "D"
      [] c = "e" -> "E"
      [] c = "f" -> "F"
      [] c = "g" -> "G"
      [] c = "h" -> "H"
      [] c = "i" -> "I"
      [] c = "j" -> "J"
      [] c = "k" -> "K"
      [] c = "l" -> "L"
      [] c = "m" -> "M"
      [] c = "n" -> "N"
      [] c = "o" -> "O"
      [] c = "p" -> "P"
      [] c = "q" -> "Q"
      [] c = "r" -> "R"
      [] c = "s" -> "S"
      [] c = "t" -> "T"
      [] c = "u" -> "U"
      [] c = "v" -> "V"
      [] c = "w" -> "W"
      [] c = "x" -> "X"
      [] c = "y" -> "Y"
      [] c = "z" -> "Z"
      [] OTHER -> c

\* str.upper()
Upper(s) == [i \in 1..Len(s) |-> UpperChar(s[i])]

\* the characters of a text as one string, for f-string interpolation
RECURSIVE Join(_)
Join(s) == IF s = << >> THEN "" ELSE s[1] \o Join(Tail(s))

\* int(card_height * fraction), the fraction in thousandths
IntPercent(height, permille) == (height * permille) \div 1000

-----------------------------------------------------------------------------
(* Configuration: get_default_config, and the variations a user file gives *)
(* (default_messages holds the first two of the ten default messages)      *)

DefaultConfig ==
    [ card_width |-> 1650, card_height |-> 1050,
      table_x |-> 50, table_y_permille |-> 450, table_width_margin |-> 470,
      table_height_permille |-> 300, max_contacts |-> 5,
      table_header_height |-> 40, min_row_height |-> 25, max_row_height |-> 40,
      ai_header_height |-> 40, ai_x |-> 50, ai_y_offset |-> 10,
      ai_width_margin |-> 470, ai_height_permille |-> 232,
      show_default_message |-> TRUE,
      default_message |-> "Thanks for the contact(s)!",
      default_messages |-> << "Thanks for the contact(s)!", "73 and thanks for the QSO!" >>,
      date_band_offset |-> 10, comment_offset |-> 200, pota_offset |-> 400,
      conf_x_offset |-> 10, conf_y_offset |-> -40, conf_min_y |-> 50,
      batch_by_call |-> TRUE,
      widths_permille |-> << 140, 90, 110, 120, 70, 70, 90, 310 >>,
      base_row_height |-> 22, row_spacing |-> 5, comment_max_width |-> 800,
      show_row_lines |-> TRUE, row_line_spacing |-> 5,
      special_handling |->
          ("FT8" :> "FT8") @@ ("MFSK/FT4" :> "FT4") @@ ("SSB/USB" :> "USB")
              @@ ("SSB/LSB" :> "LSB") @@ ("PHONE/USB" :> "USB") @@ ("PHONE/LSB" :> "LSB"),
      digital_main |-> { "MFSK", "PSK", "RTTY", "DATA", "DIGITAL" },
      digital |-> { "FT8", "FT4", "PSK31", "PSK63", "RTTY", "JT4", "JT9", "JT65",
                    "MSK144", "Q65", "FSK441", "WSPR", "JS8", "VARA" },
      bands |-> << [ lo |-> 1800, hi |-> 2000, band |-> "160m" ],
                   [ lo |-> 3500, hi |-> 4000, band |-> "80m" ],
                   [ lo |-> 7000, hi |-> 7300, band |-> "40m" ],
                   [ lo |-> 14000, hi |-> 14350, band |-> "20m" ],
                   [ lo |-> 21000, hi |-> 21450, band |-> "15m" ],
                   [ lo |-> 28000, hi |-> 29700, band |-> "10m" ],
                   [ lo |-> 50000, hi |-> 54000, band |-> "6m" ],
                   [ lo |-> 144000, hi |-> 148000, band |-> "2m" ],
                   [ lo |-> 420000, hi |-> 450000, band |-> "70cm" ] >> ]

\* configurations a user file can produce (load_config merges it over the defaults)
GenConfigs ==
    { DefaultConfig,
      [DefaultConfig EXCEPT !.show_default_message = FALSE],
      [DefaultConfig EXCEPT !.default_messages = << >>],
      [DefaultConfig EXCEPT !.batch_by_call = FALSE],
      [DefaultConfig EXCEPT !.card_height = 200, !.table_y_permille = 500],
      [DefaultConfig EXCEPT !.card_height = 202, !.table_y_permille = 500] }

-----------------------------------------------------------------------------
(* Records: load_contacts keeps the non-empty, stripped fields of a row; a *)
(* field that is absent reads as "" through contact.get(field, '')         *)

Contact(call, date, pota, comment) ==
    [ call |-> call, qso_date |-> date, pota_ref |-> pota, comment_intl |-> comment ]

RecordPool ==
    { Contact(<< "k", "a" >>, "20240101", "", ""),
      Contact(<< "K", "A" >>, "20240102", "", "tnx"),
      Contact(<< "w", "1" >>, "20240103", "K-1", "") }

\* the end-to-end scenario: 7 records of KA1ABC
ScenarioCall == << "K", "A", "1", "A", "B", "C" >>
ScenarioContacts ==
    [ i \in 1..7 |-> Contact(ScenarioCall, "2024010" \o ToString(i), "", "") ]

SeqsUpTo(S, n) == UNION { [1..k -> S] : k \in 0..n }

\* text measurement: ImageDraw.textbbox returns a width or raises
MeasureWidths == { 20, 60, 165, 175, 185, 400 }
MeasureResults ==
    { [ raised |-> FALSE, width |-> w ] : w \in MeasureWidths }
        \cup { [ raised |-> TRUE, width |-> 0 ] }

-----------------------------------------------------------------------------
(* generate_cards *)

NoPage == [ callsign |-> << >>, contacts |-> << >>, card_number |-> 0,
            total_cards |-> 0, total_contacts |-> 0 ]

IdleFit == [ pc |-> "idle" ]
IdleTbl == [ pc |-> "idle" ]
IdleInfo == [ pc |-> "idle" ]
IdleFmt == [ pc |-> "idle" ]
IdleUpd == [ pc |-> "idle" ]
IdleLoad == [ pc |-> "idle" ]
IdleOp == [ pc |-> "idle" ]

\* the callsigns already present in the dict
Keys(d) == { d[i].key : i \in 1..Len(d) }

\* mutant of DictAppend: a new key is put in front of the others
DictAppend_NewKeyFirst(d, k, v) ==
    IF k \in Keys(d)
    THEN [ i \in 1..Len(d) |->
             IF d[i].key = k THEN [ d[i] EXCEPT !.items = Append(@, v) ] ELSE d[i] ]
    ELSE << [ key |-> k, items |-> << v >> ] >> \o d

\* grouped[callsign].append(contact) on a defaultdict(list): a new key goes last
DictAppend(d, k, v) ==
    IF k \in Keys(d)
    THEN [ i \in 1..Len(d) |->
             IF d[i].key = k THEN [ d[i] EXCEPT !.items = Append(@, v) ] ELSE d[i] ]
    ELSE Append(d, [ key |-> k, items |-> << v >> ])

\* mutant of Chunks: a last chunk shorter than the capacity is dropped
Chunks_DropShortTail(cs, cap) ==
    [ j \in 1..(Len(cs) \div cap) |-> SubSeq(cs, (j - 1) * cap + 1, j * cap) ]

\* mutant of Chunks: the callsign's records are not split at all
Chunks_Unsplit(cs, cap) == << cs >>

\* for i in range(0, len(contacts), max_contacts): contacts[i:i+max_contacts]
Chunks(cs, cap) ==
    [ j \in 1..((Len(cs) + cap - 1) \div cap) |->
        SubSeq(cs, (j - 1) * cap + 1, Min(j * cap, Len(cs))) ]

InitGen ==
    /\ \/ /\ contacts \in SeqsUpTo(RecordPool, MaxContacts)
          /\ \E c \in GenConfigs, cap \in 1..MaxCap :
                config = [ c EXCEPT !.max_contacts = cap ]
       \/ /\ contacts = ScenarioContacts
          /\ config = DefaultConfig
    /\ batch_by_call = config.batch_by_call
    /\ pc = "start"
    /\ grouped = << >>
    /\ idx = 0
    /\ contact_groups = << >>
    /\ card_num = 0
    /\ pages = << >>
    /\ page = NoPage
    /\ canvas = << >>
    /\ saved = << >>
    /\ cards_generated = 0
    /\ fit = IdleFit
    /\ tbl = IdleTbl
    /\ info = IdleInfo
    /\ fmt = IdleFmt
    /\ upd = IdleUpd
    /\ load = IdleLoad
    /\ op = IdleOp

\* check_and_clear_output_dir: False only when clearing the directory fails
CheckOutputDir ==
    /\ pc = "start"
    /\ \/ pc' = "group" /\ idx' = 1
       \/ pc' = "returned0" /\ idx' = idx
    /\ UNCHANGED << config, contacts, batch_by_call, grouped, contact_groups,
                    card_num, pages, page, canvas, saved, cards_generated, fit, tbl, info, fmt,
           upd, load, op >>

\* mutant of AfterGet: the key is taken out of the record, as dict.pop does
AfterGet_Pop(c, key) == [ c EXCEPT ![key] = << >> ]

\* contact.get(key, ''): the record after the read is the record before it
AfterGet(c, key) == c

\* one iteration of "for contact in self.contacts"
GroupContact ==
    /\ pc = "group"
    /\ idx <= Len(contacts)
    /\ grouped' = DictAppend(grouped, Upper(contacts[idx].call), contacts[idx])
    /\ contacts' = [ contacts EXCEPT ![idx] = AfterGet(@, "call") ]
    /\ idx' = idx + 1
    /\ UNCHANGED << config, batch_by_call, pc, contact_groups, card_num,
                    pages, page, canvas, saved, cards_generated, fit, tbl, info, fmt,
                    upd, load, op >>

\* the grouping loop ends; "for callsign, contacts in grouped.items()" begins
GroupDone ==
    /\ pc = "group"
    /\ idx > Len(contacts)
    /\ pc' = "callsign"
    /\ idx' = 1
    /\ UNCHANGED << config, contacts, batch_by_call, grouped, contact_groups,
                    card_num, pages, page, canvas, saved, cards_generated, fit, tbl, info, fmt,
           upd, load, op >>

\* next item of grouped: split its contacts into contact_groups
SplitCallsign ==
    /\ pc = "callsign"
    /\ idx <= Len(grouped)
    /\ contact_groups' = Chunks(grouped[idx].items, config.max_contacts)
    /\ card_num' = 1
    /\ pc' = "card"
    /\ UNCHANGED << config, contacts, batch_by_call, grouped, idx, pages, page,
                    canvas, saved, cards_generated, fit, tbl, info, fmt,
                    upd, load, op >>

\* the loop over grouped ends: return cards_generated
Finish ==
    /\ pc = "callsign"
    /\ idx > Len(grouped)
    /\ pc' = "done"
    /\ UNCHANGED << config, contacts, batch_by_call, grouped, idx, contact_groups,
                    card_num, pages, page, canvas, saved, cards_generated, fit, tbl, info, fmt,
           upd, load, op >>

\* mutant of PageArgs: the page index is 0-based
PageArgs_ZeroBased(callsign, groups, num, total_contacts) ==
    [ callsign |-> callsign, contacts |-> groups[num], card_number |-> num - 1,
      total_cards |-> Len(groups), total_contacts |-> total_contacts ]

\* the arguments generate_cards passes to create_qsl_card
PageArgs(callsign, groups, num, total_contacts) ==
    [ callsign |-> callsign, contacts |-> groups[num], card_number |-> num,
      total_cards |-> Len(groups), total_contacts |-> total_contacts ]

\* one iteration of "for card_num, contact_group in enumerate(contact_groups, 1)":
\* the call of create_qsl_card
CallCreateCard ==
    /\ pc = "card"
    /\ card_num <= Len(contact_groups)
    /\ page' = PageArgs(grouped[idx].key, contact_groups, card_num,
                        Len(grouped[idx].items))
    /\ pages' = Append(pages, page')
    /\ canvas' = << >>
    /\ pc' = "base"
    /\ UNCHANGED << config, contacts, batch_by_call, grouped, idx, contact_groups,
                    card_num, saved, cards_generated, fit, tbl, info, fmt,
                    upd, load, op >>

\* the cards of this callsign are done: on to the next callsign
CallsignDone ==
    /\ pc = "card"
    /\ card_num > Len(contact_groups)
    /\ idx' = idx + 1
    /\ pc' = "callsign"
    /\ UNCHANGED << config, contacts, batch_by_call, grouped, contact_groups,
                    card_num, pages, page, canvas, saved, cards_generated, fit, tbl, info, fmt,
           upd, load, op >>

-----------------------------------------------------------------------------
(* draw_contact_table: the row calculation and the returned bottom Y *)

TableY(cfg) == IntPercent(cfg.card_height, cfg.table_y_permille)
TableHeight(cfg) == IntPercent(cfg.card_height, cfg.table_height_permille)

\* max_contacts = min(len(contacts), table_cfg['max_contacts'])
TableRows(cfg, n) == Min(n, cfg.max_contacts)

\* mutant of RowHeight: the divisor is the number of rows, without the + 1
RowHeight_DivideByRows(cfg, n) ==
    Min(Max(cfg.min_row_height,
            (TableHeight(cfg) - cfg.table_header_height - 20) \div TableRows(cfg, n)),
        cfg.max_row_height)

\* row_height = min(max(min_row_height, (table_height - header_height - 20)
\*                       // (max_contacts + 1)), max_row_height)
RowHeight(cfg, n) ==
    Min(Max(cfg.min_row_height,
            (TableHeight(cfg) - cfg.table_header_height - 20) \div (TableRows(cfg, n) + 1)),
        cfg.max_row_height)

\* return header_y + header_height + max_contacts * row_height + 10
TableBottom(cfg, n) ==
    TableY(cfg) + cfg.table_header_height + TableRows(cfg, n) * RowHeight(cfg, n) + 10

-----------------------------------------------------------------------------
(* draw_additional_info_section: what is drawn for a page *)

HasInfo(c) == c.pota_ref # "" \/ c.comment_intl # ""

\* [c for c in contacts[:max_contacts] if c.get('pota_ref') or c.get('comment_intl')]
ContactsWithInfo(cfg, cs) == SelectSeq(Take(cs, cfg.max_contacts), HasInfo)

SectionX(cfg) == cfg.ai_x
SectionY(cfg) == TableY(cfg) + TableHeight(cfg) + cfg.ai_y_offset - 25
SectionWidth(cfg) == cfg.card_width - cfg.ai_width_margin
SectionHeight(cfg) == IntPercent(cfg.card_height, cfg.ai_height_permille)

\* the messages random.choice can return: the default_messages list when it is
\* a non-empty list, else the single default_message
MessageChoices(cfg) ==
    IF Len(cfg.default_messages) > 0
    THEN { cfg.default_messages[i] : i \in 1..Len(cfg.default_messages) }
    ELSE { cfg.default_message }

\* message_width: measured, or len(default_message) * 7 when textbbox raises
MessageWidth(msg, m) == IF m.raised THEN Len(msg) * 7 ELSE m.width

\* mutant of MessageX: the free width is not halved
MessageX_NotHalved(cfg, w) == SectionX(cfg) + (SectionWidth(cfg) - w)

\* message_x = section_x + (section_width - message_width) // 2
MessageX(cfg, w) == SectionX(cfg) + (SectionWidth(cfg) - w) \div 2

\* message_y = content_y + content_height // 2 - 10
MessageY(cfg) ==
    (SectionY(cfg) + cfg.ai_header_height + 10)
        + ((SectionHeight(cfg) - cfg.ai_header_height - 20) \div 2) - 10

\* the panel drawn for the records cs: "none" (early return before anything is
\* drawn), "fallback" (frame, header and one message) or "rows" (frame, header
\* and the rows of the records with auxiliary data)
InfoPanel(cfg, cs, msg, m) ==
    LET has_additional_info == \E i \in 1..Len(cs) : HasInfo(cs[i])
        with_info == ContactsWithInfo(cfg, cs)
    IN  IF ~has_additional_info /\ ~cfg.show_default_message
        THEN [ op |-> "info", kind |-> "none", recs |-> cs, text |-> "",
               messages |-> 0, rows |-> << >>, x |-> 0, y |-> 0, w |-> 0 ]
        ELSE IF with_info = << >> /\ cfg.show_default_message
        THEN [ op |-> "info", kind |-> "fallback", recs |-> cs, text |-> msg,
               messages |-> 1, rows |-> << >>,
               x |-> MessageX(cfg, MessageWidth(msg, m)), y |-> MessageY(cfg),
               w |-> MessageWidth(msg, m) ]
        ELSE IF with_info = << >>
        THEN [ op |-> "info", kind |-> "empty", recs |-> cs, text |-> "",
               messages |-> 0, rows |-> << >>, x |-> 0, y |-> 0, w |-> 0 ]
        ELSE [ op |-> "info", kind |-> "rows", recs |-> cs, text |-> "",
               messages |-> 0, rows |-> with_info, x |-> 0, y |-> 0, w |-> 0 ]

-----------------------------------------------------------------------------
(* create_qsl_card *)

\* contacts_for_card = contacts[:max_contacts]
ContactsForCard(cfg, pg) == Take(pg.contacts, cfg.max_contacts)

\* mutant of TotalQsos: the count of the records on this page
TotalQsos_ThisPage(cfg, pg) == Len(ContactsForCard(cfg, pg))

\* total_qsos = total_contacts_for_callsign or contact_count
TotalQsos(cfg, pg) ==
    IF pg.total_contacts # 0 THEN pg.total_contacts ELSE Len(ContactsForCard(cfg, pg))

\* confirm_text
ConfirmText(cfg, pg) ==
    "QSL - Confirming " \o ToString(TotalQsos(cfg, pg)) \o " QSO"
        \o (IF TotalQsos(cfg, pg) > 1 THEN "s" ELSE "")
        \o " with " \o Join(Upper(pg.callsign))
        \o (IF pg.total_cards > 1
            THEN " (Card " \o ToString(pg.card_number) \o " of "
                     \o ToString(pg.total_cards) \o ")"
            ELSE "")

\* mutant of BannerHeadroom: a table top of exactly 100 counts as headroom
BannerHeadroom_AtLeast(cfg) == TableY(cfg) >= 100

\* if table_y > 100
BannerHeadroom(cfg) == TableY(cfg) > 100

DrawOp(name, recs, text, x, y) ==
    [ op |-> name, kind |-> "", recs |-> recs, text |-> text,
      messages |-> 0, rows |-> << >>, x |-> x, y |-> y, w |-> 0 ]

\* img = self.create_base_image(): the template resized to the card, or a blank
\* card when there is no template or it fails to load; either way an image
\* of the configured size
CreateBaseImage ==
    /\ pc = "base"
    /\ canvas' = Append(canvas,
                   DrawOp("base", << >>, "", config.card_width, config.card_height))
    /\ pc' = "banner"
    /\ UNCHANGED << config, contacts, batch_by_call, grouped, idx, contact_groups,
                    card_num, pages, page, saved, cards_generated, fit, tbl, info, fmt,
                    upd, load, op >>

\* the confirmation text: drawn when there is headroom; its textbbox call is
\* not guarded, so a measurement that raises leaves generate_cards
ConfirmationText ==
    /\ pc = "banner"
    /\ IF BannerHeadroom(config)
       THEN \/ /\ canvas' = Append(canvas,
                      DrawOp("banner", << >>, ConfirmText(config, page),
                             config.table_x + config.conf_x_offset,
                             Max(config.conf_min_y, TableY(config) + config.conf_y_offset)))
               /\ pc' = "table"
            \/ /\ canvas' = canvas
               /\ pc' = "raised"
       ELSE /\ canvas' = canvas
            /\ pc' = "table"
    /\ UNCHANGED << config, contacts, batch_by_call, grouped, idx, contact_groups,
                    card_num, pages, page, saved, cards_generated, fit, tbl, info, fmt,
                    upd, load, op >>

\* self.draw_contact_table(draw, contacts_for_card)
DrawContactTable ==
    /\ pc = "table"
    /\ LET cs == ContactsForCard(config, page)
       IN  canvas' = Append(canvas,
               DrawOp("table", cs, "", RowHeight(config, Len(cs)),
                      TableBottom(config, Len(cs))))
    /\ pc' = "info"
    /\ UNCHANGED << config, contacts, batch_by_call, grouped, idx, contact_groups,
                    card_num, pages, page, saved, cards_generated, fit, tbl, info, fmt,
                    upd, load, op >>

\* self.draw_additional_info_section(draw, contacts_for_card)
DrawAdditionalInfo ==
    /\ pc = "info"
    /\ \E msg \in MessageChoices(config), m \in MeasureResults :
          canvas' = Append(canvas,
                       InfoPanel(config, ContactsForCard(config, page), msg, m))
    /\ pc' = "save"
    /\ UNCHANGED << config, contacts, batch_by_call, grouped, idx, contact_groups,
                    card_num, pages, page, saved, cards_generated, fit, tbl, info, fmt,
                    upd, load, op >>

\* the file name of the card
FileName(pg, batch) ==
    IF pg.total_cards = 1
    THEN Join(pg.callsign) \o ".png"
    ELSE Join(pg.callsign) \o (IF batch THEN "_card_" ELSE "_")
             \o ToString(pg.card_number) \o "_of_" \o ToString(pg.total_cards) \o ".png"

\* card.save(...); cards_generated += 1; a failed write raises.  The image is
\* not used after it is saved.
SaveCard ==
    /\ pc = "save"
    /\ \/ /\ saved' = Append(saved, FileName(page, batch_by_call))
          /\ cards_generated' = cards_generated + 1
          /\ card_num' = card_num + 1
          /\ canvas' = << >>
          /\ pc' = "card"
       \/ /\ pc' = "raised"
          /\ UNCHANGED << saved, cards_generated, card_num, canvas >>
    /\ UNCHANGED << config, contacts, batch_by_call, grouped, idx, contact_groups,
                    pages, page, fit, tbl, info, fmt,
                    upd, load, op >>

NextGen ==
    \/ CheckOutputDir
    \/ GroupContact
    \/ GroupDone
    \/ SplitCallsign
    \/ Finish
    \/ CallCreateCard
    \/ CallsignDone
    \/ CreateBaseImage
    \/ ConfirmationText
    \/ DrawContactTable
    \/ DrawAdditionalInfo
    \/ SaveCard

Spec == InitGen /\ [][NextGen]_vars

-----------------------------------------------------------------------------
(* Vocabulary of the properties, computed from the input alone *)

CeilDiv(a, b) == (a + b - 1) \div b

\* the records of the input whose uppercased call is k, in input order
RecordsOf(k) == SelectSeq(contacts, LAMBDA c : Upper(c.call) = k)

\* the uppercased calls of a sequence of records, each once, in order of first appearance
RECURSIVE FirstSeen(_, _)
FirstSeen(cs, seen) ==
    IF cs = << >> THEN << >>
    ELSE LET k == Upper(Head(cs).call)
         IN  IF k \in seen THEN FirstSeen(Tail(cs), seen)
             ELSE << k >> \o FirstSeen(Tail(cs), seen \cup { k })

InputCalls == FirstSeen(contacts, { })

\* the pages handed to create_qsl_card so far for callsign k, in emission order
PagesOf(k) == SelectSeq(pages, LAMBDA p : p.callsign = k)

RECURSIVE ConcatRecords(_)
ConcatRecords(ps) ==
    IF ps = << >> THEN << >> ELSE Head(ps).contacts \o ConcatRecords(Tail(ps))

RECURSIVE SumSeq(_)
SumSeq(ns) == IF ns = << >> THEN 0 ELSE Head(ns) + SumSeq(Tail(ns))

\* the callsigns of a page sequence with runs of equal callsigns collapsed
RECURSIVE Runs(_)
Runs(ps) ==
    IF ps = << >> THEN << >>
    ELSE IF Len(ps) > 1 /\ ps[1].callsign = ps[2].callsign THEN Runs(Tail(ps))
    ELSE << ps[1].callsign >> \o Runs(Tail(ps))

IsPrefix(s, t) == Len(s) <= Len(t) /\ s = SubSeq(t, 1, Len(s))

Capacity == config.max_contacts

-----------------------------------------------------------------------------
\* C1: when generate_cards returns normally, the number of pages it has emitted
\* is the sum over the callsigns of ceil(c_i / P), and the records of a
\* callsign's pages, concatenated in page order, are exactly that callsign's
\* records in input order.
C1_PageCountAndOrder ==
    pc = "done" =>
        /\ Len(pages) =
              SumSeq([ i \in 1..Len(InputCalls) |->
                         CeilDiv(Len(RecordsOf(InputCalls[i])), Capacity) ])
        /\ \A i \in 1..Len(InputCalls) :
              ConcatRecords(PagesOf(InputCalls[i])) = RecordsOf(InputCalls[i])
        /\ \A i \in 1..Len(pages) :
              \E j \in 1..Len(InputCalls) : pages[i].callsign = InputCalls[j]

\* a finished run with two callsigns, one of them split over two pages of unequal size
C1_Witness ==
    /\ pc = "done"
    /\ Len(InputCalls) = 2
    /\ Len(pages) = 3
    /\ Capacity = 2
    /\ Len(contacts) = 4

\* C2: every page holds between 1 and N records, and every page of a callsign
\* but its last holds exactly N.
C2_PageSizes ==
    \A i \in 1..Len(pages) :
        /\ Len(pages[i].contacts) >= 1
        /\ Len(pages[i].contacts) <= Capacity
        /\ (\E j \in (i + 1)..Len(pages) : pages[j].callsign = pages[i].callsign)
              => Len(pages[i].contacts) = Capacity
        /\ (pc = "done" /\ Len(pages[i].contacts) < Capacity)
              => pages[i].card_number = CeilDiv(Len(RecordsOf(pages[i].callsign)), Capacity)

\* a callsign with a full page followed by a shorter last page
C2_Witness ==
    \E i \in 1..Len(pages) :
        /\ i < Len(pages)
        /\ pages[i].callsign = pages[i + 1].callsign
        /\ Len(pages[i].contacts) = Capacity
        /\ Capacity > 1
        /\ Len(pages[i + 1].contacts) < Capacity

\* C3: records are grouped by uppercased call, the groups are processed in the
\* order of first appearance of each callsign, and the pages of one callsign
\* are contiguous.
C3_GroupingOrder ==
    /\ \A i \in 1..Len(pages) : \A j \in 1..Len(pages[i].contacts) :
          Upper(pages[i].contacts[j].call) = pages[i].callsign
    /\ IsPrefix(Runs(pages), InputCalls)
    /\ pc \notin { "start", "group", "returned0" } =>
          [ i \in 1..Len(grouped) |-> grouped[i].key ] = InputCalls
    /\ pc = "done" => Runs(pages) = InputCalls

\* w1 first, then lower-case ka, then upper-case KA: W1 is processed first
\* and the two records of KA share the second group
C3_Witness ==
    /\ pc = "done"
    /\ Len(contacts) = 3
    /\ contacts[1].call = << "w", "1" >>
    /\ contacts[2].call = << "k", "a" >>
    /\ contacts[3].call = << "K", "A" >>
    /\ Capacity = 1
    /\ Len(pages) = 3
    /\ pages[1].callsign = << "W", "1" >>
    /\ pages[2].callsign = << "K", "A" >>
    /\ pages[3].callsign = << "K", "A" >>

\* C4: a page carries a 1-based index k with 1 <= k <= total, the same total on
\* every page of its callsign, and the callsign's full record count; the
\* indexes of a callsign's pages are 1, 2, ... in emission order, reach total
\* when the run ends, and the page sizes then sum to the carried record count.
C4_PageIndexes ==
    /\ \A i \in 1..Len(pages) :
          /\ pages[i].card_number >= 1
          /\ pages[i].card_number <= pages[i].total_cards
          /\ pages[i].total_contacts = Len(RecordsOf(pages[i].callsign))
    /\ \A i \in 1..Len(InputCalls) :
          LET ps == PagesOf(InputCalls[i])
          IN  /\ \A j \in 1..Len(ps) :
                    /\ ps[j].card_number = j
                    /\ ps[j].total_cards = ps[1].total_cards
              /\ pc = "done" =>
                    /\ Len(ps) = ps[1].total_cards
                    /\ SumSeq([ j \in 1..Len(ps) |-> Len(ps[j].contacts) ])
                          = ps[1].total_contacts

\* a finished run in which one callsign has pages 1 and 2 of 2
C4_Witness ==
    /\ pc = "done"
    /\ \E i \in 1..Len(pages) :
          /\ pages[i].card_number = 2
          /\ pages[i].total_cards = 2
          /\ pages[i].total_contacts = 3

\* the drawing steps of the card in progress with the given name
OpsNamed(name) == SelectSeq(canvas, LAMBDA o : o.op = name)

\* C5: a rendered banner reads "QSL - Confirming {T} QSO{s} with {CALLSIGN}",
\* T the callsign's record count over all its pages, "s" exactly when T > 1,
\* followed by " (Card {n} of {total})" exactly when the callsign needs more
\* than one page; in the scenario of 7 records and capacity 5 the second page
\* holds 2 records and its banner carries the count 7 and "(Card 2 of 2)".
C5_BannerText ==
    \A i \in 1..Len(canvas) :
        canvas[i].op = "banner" =>
            LET T == Len(RecordsOf(page.callsign))
                total == CeilDiv(T, Capacity)
                head == "QSL - Confirming " \o ToString(T) \o " QSO"
                tail == " with " \o Join(page.callsign)
                suffix == " (Card " \o ToString(page.card_number) \o " of "
                              \o ToString(total) \o ")"
            IN  /\ T > 1 /\ total > 1 => canvas[i].text = head \o "s" \o tail \o suffix
                /\ T > 1 /\ total = 1 => canvas[i].text = head \o "s" \o tail
                /\ T = 1 => canvas[i].text = head \o tail
                /\ (contacts = ScenarioContacts /\ page.card_number = 2) =>
                      /\ Len(page.contacts) = 2
                      /\ Len(pages[1].contacts) = 5
                      /\ canvas[i].text
                            = "QSL - Confirming 7 QSOs with KA1ABC (Card 2 of 2)"

\* the banner of the scenario's second page has been drawn
C5_Witness ==
    /\ contacts = ScenarioContacts
    /\ page.card_number = 2
    /\ Len(OpsNamed("banner")) = 1

\* the steps create_qsl_card issues for the page in progress, in order
ExpectedSteps ==
    << "base" >> \o (IF TableY(config) > 100 THEN << "banner" >> ELSE << >>)
        \o << "table", "info" >>

\* C6: the steps of a card are issued in the order base canvas, banner (only
\* when the table's top Y exceeds 100), table, info panel, and the table and
\* the info panel get the same record subset of the page.
C6_StepOrder ==
    /\ IsPrefix([ i \in 1..Len(canvas) |-> canvas[i].op ], ExpectedSteps)
    /\ pc = "save" =>
          /\ [ i \in 1..Len(canvas) |-> canvas[i].op ] = ExpectedSteps
          /\ OpsNamed("table")[1].recs = OpsNamed("info")[1].recs
          /\ OpsNamed("table")[1].recs = SubSeq(page.contacts, 1, Min(Capacity, Len(page.contacts)))

\* a card composed without a banner because the table's top Y is exactly 100
C6_Witness ==
    /\ pc = "save"
    /\ TableY(config) = 100
    /\ Len(canvas) = 3
    /\ Len(page.contacts) = 2

\* no record of the page in progress has a pota_ref or a comment_intl
PageWithoutInfo ==
    \A j \in 1..Len(page.contacts) :
        page.contacts[j].pota_ref = "" /\ page.contacts[j].comment_intl = ""

\* the message is horizontally centred in the panel: its left and right
\* margins differ by at most one pixel
Centred(o) ==
    LET left == o.x - SectionX(config)
        right == (SectionX(config) + SectionWidth(config)) - (o.x + o.w)
    IN  right - left \in { 0, 1 }

\* C7 as stated: on every page without auxiliary data the panel is drawn with
\* exactly one fallback message of the default_messages list, centred, and no
\* data rows.
C7_Original ==
    (pc = "save" /\ PageWithoutInfo) =>
        LET o == OpsNamed("info")[1]
        IN  /\ o.kind = "fallback"
            /\ o.messages = 1
            /\ \E k \in 1..Len(config.default_messages) : o.text = config.default_messages[k]
            /\ Centred(o)
            /\ o.rows = << >>

\* C7 amended: on a page without auxiliary data, when show_default_message is
\* enabled the panel is drawn with exactly one fallback message (one of
\* default_messages when that list is not empty, else default_message),
\* centred by its measured width (7 pixels per character when the
\* measurement raises), and no data rows; when show_default_message is
\* disabled nothing of the panel is drawn.
C7_FallbackMessage ==
    (pc = "save" /\ PageWithoutInfo) =>
        LET o == OpsNamed("info")[1]
        IN  IF config.show_default_message
            THEN /\ o.kind = "fallback"
                 /\ o.messages = 1
                 /\ IF config.default_messages # << >>
                    THEN \E k \in 1..Len(config.default_messages) :
                            o.text = config.default_messages[k]
                    ELSE o.text = config.default_message
                 /\ Centred(o)
                 /\ o.rows = << >>
            ELSE o.kind = "none"

\* a page without auxiliary data whose fallback message was measured
C7_Witness ==
    /\ pc = "save"
    /\ PageWithoutInfo
    /\ config.show_default_message
    /\ OpsNamed("info")[1].kind = "fallback"
    /\ OpsNamed("info")[1].w = 185

-----------------------------------------------------------------------------
(* The iterative-fit blocks of draw_additional_info_section: the date_band *)
(* text and the POTA text of one row, each measured, cut while too wide,   *)
(* and drawn.                                                              *)

\* mutant of Ellipsize: three characters are cut and three appended
Ellipsize_KeepsLength(text) == DropLast(text, 3) \o << ".", ".", "." >>

\* text[:-4] + "..."
Ellipsize(text) == DropLast(text, 4) \o << ".", ".", "." >>

\* bbox[2] - bbox[0], or len(text) * 7 when textbbox raises
MeasuredWidth(text, m) == IF m.raised THEN Len(text) * 7 ELSE m.width

\* col_positions
ColDateBand(cfg) == SectionX(cfg) + cfg.date_band_offset
ColComment(cfg) == SectionX(cfg) + cfg.comment_offset
ColPota(cfg) == SectionX(cfg) + cfg.pota_offset

\* mutant of PotaX: always the configured column
PotaX_Configured(cfg, has_comment, comment_end_x) == ColPota(cfg)

\* pota_x: behind the drawn comment when the row has one
PotaX(cfg, has_comment, comment_end_x) ==
    IF has_comment THEN Max(comment_end_x, ColPota(cfg)) ELSE ColPota(cfg)

\* max_pota_width = section_width - (pota_x - section_x) - 20
MaxPotaWidth(cfg, pota_x) == SectionWidth(cfg) - (pota_x - SectionX(cfg)) - 20

\* the width above which the date_band text is cut, the width the loop cuts
\* down to, and the length at which it gives up
DateBandFit(cfg, text) ==
    [ kind |-> "date_band", text |-> text,
      trigger |-> ColComment(cfg) - ColDateBand(cfg) - 10,
      target |-> ColComment(cfg) - ColDateBand(cfg) - 20,
      min_len |-> 5,
      space |-> ColComment(cfg) - ColDateBand(cfg) ]

\* the same for the POTA text drawn at pota_x
PotaFit(cfg, text, pota_x) ==
    [ kind |-> "pota", text |-> text,
      trigger |-> MaxPotaWidth(cfg, pota_x),
      target |-> MaxPotaWidth(cfg, pota_x) - 20,
      min_len |-> 8,
      space |-> SectionWidth(cfg) - (pota_x - SectionX(cfg)) ]

\* the state of a block that starts with the given parameters
FitStart(f) ==
    [ pc |-> "measure", kind |-> f.kind, text |-> f.text, width |-> 0,
      trigger |-> f.trigger, target |-> f.target, min_len |-> f.min_len,
      space |-> f.space, iters |-> 0 ]

\* panel geometries: the default, a narrow date/band column, a narrow panel
FitConfigs ==
    { DefaultConfig,
      [DefaultConfig EXCEPT !.comment_offset = 40],
      [DefaultConfig EXCEPT !.ai_width_margin = 1000] }

Filler(n) == [ i \in 1..n |-> "x" ]

\* date_band = f"{date} {band}": the date "?" of a record without qso_date,
\* and an explicit band of any length
DateBandTexts == { << "?", " " >> \o Filler(k) : k \in 0..(MaxTextLen - 2) }

\* pota_text = f"POTA: {pota_ref}"
PotaTexts ==
    { << "P", "O", "T", "A", ":", " " >> \o Upper(Filler(k)) : k \in 1..(MaxTextLen - 6) }

IdleGen ==
    /\ contacts = << >>
    /\ batch_by_call = FALSE
    /\ pc = "idle"
    /\ grouped = << >>
    /\ idx = 0
    /\ contact_groups = << >>
    /\ card_num = 0
    /\ pages = << >>
    /\ page = NoPage
    /\ canvas = << >>
    /\ saved = << >>
    /\ cards_generated = 0

InitFit ==
    /\ IdleGen
    /\ tbl = IdleTbl
    /\ info = IdleInfo
    /\ fmt = IdleFmt
    /\ upd = IdleUpd
    /\ load = IdleLoad
    /\ op = IdleOp
    /\ config \in FitConfigs
    /\ \/ \E t \in DateBandTexts : fit = FitStart(DateBandFit(config, t))
       \/ \E t \in PotaTexts, has_comment \in BOOLEAN, cw \in { 0, 400 } :
             fit = FitStart(PotaFit(config, t,
                       PotaX(config, has_comment, ColComment(config) + cw + 15)))

\* the first measurement of the text
FitMeasure ==
    /\ fit.pc = "measure"
    /\ \E m \in MeasureResults :
          fit' = [ fit EXCEPT !.width = MeasuredWidth(fit.text, m), !.pc = "test" ]
    /\ UNCHANGED << config, genVars, tbl, info, fmt,
                    upd, load, op >>

\* "if width > ...": enter the loop, or draw the text as it is
FitTest ==
    /\ fit.pc = "test"
    /\ fit' = [ fit EXCEPT !.pc = IF fit.width > fit.trigger THEN "loop" ELSE "drawn" ]
    /\ UNCHANGED << config, genVars, tbl, info, fmt,
                    upd, load, op >>

\* "while width > ... and len(text) > ...": is there another iteration
FitContinues(f) == f.width > f.target /\ Len(f.text) > f.min_len

\* one iteration: cut the text
FitTruncate ==
    /\ fit.pc = "loop"
    /\ FitContinues(fit)
    /\ fit' = [ fit EXCEPT !.text = Ellipsize(fit.text), !.pc = "remeasure",
                           !.iters = fit.iters + 1 ]
    /\ UNCHANGED << config, genVars, tbl, info, fmt,
                    upd, load, op >>

\* one iteration: measure the cut text
FitRemeasure ==
    /\ fit.pc = "remeasure"
    /\ \E m \in MeasureResults :
          fit' = [ fit EXCEPT !.width = MeasuredWidth(fit.text, m), !.pc = "loop" ]
    /\ UNCHANGED << config, genVars, tbl, info, fmt,
                    upd, load, op >>

\* the loop ends: draw.text(...)
FitDraw ==
    /\ fit.pc = "loop"
    /\ ~FitContinues(fit)
    /\ fit' = [ fit EXCEPT !.pc = "drawn" ]
    /\ UNCHANGED << config, genVars, tbl, info, fmt,
                    upd, load, op >>

NextFit ==
    \/ FitMeasure
    \/ FitTest
    \/ FitTruncate
    \/ FitRemeasure
    \/ FitDraw

\* the code runs the block to its end without waiting on anything
SpecFit == InitFit /\ [][NextFit]_vars /\ WF_vars(NextFit)

\* C8 as stated: the text finally drawn has a measured width that is at most
\* the space allotted to it (the date_band/comment gap; the panel width to
\* the right of the POTA x position).
C8_FinalWidthFits ==
    fit.pc = "drawn" => fit.width <= fit.space

\* C9: each iterative-fit loop terminates: every iteration makes the text
\* strictly shorter, the loop is left without a further cut as soon as the
\* measured width is within the loop's limit or the text is down to its
\* minimum length (5 for date_band, 8 for POTA), and the text is drawn in the end.
C9_FitTerminates ==
    /\ [][ (fit.pc = "loop" /\ fit'.pc = "remeasure")
              => Len(fit'.text) < Len(fit.text) ]_vars
    /\ [][ (fit.pc = "loop" /\ (fit.width <= fit.target \/ Len(fit.text) <= fit.min_len))
              => (fit'.pc = "drawn" /\ fit'.text = fit.text) ]_vars
    /\ [][ (fit.pc = "loop" /\ fit.kind = "date_band" /\ Len(fit.text) <= 5)
              => fit'.pc = "drawn" ]_vars
    /\ <>(fit.pc = "drawn")

\* a date_band text cut down to 5 characters that was still measured too wide
C9_Witness ==
    /\ fit.pc = "drawn"
    /\ fit.kind = "date_band"
    /\ fit.iters >= 3
    /\ Len(fit.text) = 5
    /\ fit.width > fit.target

-----------------------------------------------------------------------------
(* The row calculation of draw_contact_table, for one page of n records *)

\* table geometries a configuration file can give
\* int(x) for the quotient a / b of integers, b > 0: rounds towards zero
TruncDiv(a, b) == IF a >= 0 THEN a \div b ELSE -((-a) \div b)

\* table_width = card_width - table_cfg['width_margin']
TableWidth(cfg) == cfg.card_width - cfg.table_width_margin

ColWidths_RoundUp(cfg) ==
    [ i \in 1..Len(cfg.widths_permille) |->
        TruncDiv(TableWidth(cfg) * cfg.widths_permille[i], 1000) + 1 ]

\* col_widths = [int(table_width * w) for w in config['columns']['widths_percent']]
ColWidths(cfg) ==
    [ i \in 1..Len(cfg.widths_permille) |->
        TruncDiv(TableWidth(cfg) * cfg.widths_permille[i], 1000) ]

\* column fractions (in thousandths) a configuration file can give
WidthLists ==
    { DefaultConfig.widths_permille, << 500, 500 >>, << 333, 333, 334 >>,
      << 600, 600 >>, << 1600, -300, -300 >> }

TblConfigs ==
    { [ DefaultConfig EXCEPT !.card_height = h, !.table_header_height = hh,
                             !.min_row_height = lo, !.max_row_height = hi,
                             !.max_contacts = cap, !.card_width = cw,
                             !.widths_permille = ws ] :
        h \in { 1050, 600, 300, 100 }, hh \in { 40, 20 }, lo \in { 10, 25, 45 },
        hi \in { 30, 40 }, cap \in { 1, 5 }, cw \in { 1650, 572, 400 },
        ws \in WidthLists }

InitTbl ==
    /\ IdleGen
    /\ fit = IdleFit
    /\ info = IdleInfo
    /\ fmt = IdleFmt
    /\ upd = IdleUpd
    /\ load = IdleLoad
    /\ op = IdleOp
    /\ config \in TblConfigs
    /\ \E n \in 1..config.max_contacts :
          tbl = [ pc |-> "rows", n |-> n, row_height |-> 0, bottom |-> 0,
                  col_widths |-> << >> ]

\* draw_contact_table on a page of tbl.n records
DrawTableRows ==
    /\ tbl.pc = "rows"
    /\ tbl' = [ tbl EXCEPT !.pc = "drawn",
                           !.row_height = RowHeight(config, tbl.n),
                           !.bottom = TableBottom(config, tbl.n),
                           !.col_widths = ColWidths(config) ]
    /\ UNCHANGED << config, genVars, fit, info, fmt,
                    upd, load, op >>

NextTbl == DrawTableRows

SpecTbl == InitTbl /\ [][NextTbl]_vars

\* the quotient (table_height - header_height - 20) / (recordsOnPage + 1), rounded down
IsRowQuotient(q) ==
    LET num == TableHeight(config) - config.table_header_height - 20
    IN  q * (tbl.n + 1) <= num /\ num < (q + 1) * (tbl.n + 1)

\* C10 as stated: for every configuration the row height lies within
\* [min_row_height, max_row_height] and is the clamped quotient.
C10_Original ==
    tbl.pc = "drawn" =>
        /\ tbl.row_height >= config.min_row_height
        /\ tbl.row_height <= config.max_row_height

\* C10 amended: the row height is the quotient with divisor recordsOnPage + 1,
\* raised to min_row_height and then lowered to max_row_height; it lies within
\* [min_row_height, max_row_height] for every configuration with
\* min_row_height <= max_row_height, and is max_row_height otherwise.
C10_RowHeight ==
    tbl.pc = "drawn" =>
        /\ \E q \in -100..400 :
              /\ IsRowQuotient(q)
              /\ tbl.row_height =
                    IF q > config.max_row_height \/ config.min_row_height > config.max_row_height
                    THEN config.max_row_height
                    ELSE IF q < config.min_row_height THEN config.min_row_height ELSE q
        /\ config.min_row_height <= config.max_row_height =>
              /\ tbl.row_height >= config.min_row_height
              /\ tbl.row_height <= config.max_row_height
        /\ config.min_row_height > config.max_row_height =>
              tbl.row_height = config.max_row_height

\* a row height strictly between the two limits, on a page of 5 records
C10_Witness ==
    /\ tbl.pc = "drawn"
    /\ tbl.n = 5
    /\ tbl.row_height > config.min_row_height
    /\ tbl.row_height < config.max_row_height

\* x of the left edge of column i (current_x in the header and row loops);
\* i = number of columns + 1 gives the right end of the last column
ColumnX(i) == config.table_x + SumSeq(Take(tbl.col_widths, i - 1))

\* x of the table's right edge
TableRight == config.table_x + TableWidth(config)

ColumnsInside ==
    /\ SumSeq(tbl.col_widths) <= TableWidth(config)
    /\ \A i \in 1..(Len(tbl.col_widths) + 1) : ColumnX(i) <= TableRight

\* C11 as stated: for every configuration whose column fractions sum to at most
\* 1.0 the column pixel widths sum to at most the table width, and no separator
\* or cell origin lies right of the table's right edge.
C11_Original ==
    (tbl.pc = "drawn" /\ SumSeq(config.widths_permille) <= 1000) => ColumnsInside

\* C11 amended: the same, for configurations whose column fractions are each
\* non-negative and whose table width (card width - width margin) is
\* non-negative.
C11_ColumnWidths ==
    ( /\ tbl.pc = "drawn"
      /\ SumSeq(config.widths_permille) <= 1000
      /\ \A i \in 1..Len(config.widths_permille) : config.widths_permille[i] >= 0
      /\ TableWidth(config) >= 0 ) => ColumnsInside

\* the default eight columns on a 102 px table: every product is rounded down
C11_Witness ==
    /\ tbl.pc = "drawn"
    /\ TableWidth(config) = 102
    /\ Len(tbl.col_widths) = 8
    /\ SumSeq(tbl.col_widths) = 100

-----------------------------------------------------------------------------
(* The row loop of draw_additional_info_section: the row height, the rows   *)
(* that fit into the panel, and for each drawn row the comment text and the *)
(* x position of the POTA text. The iterative fit of the date_band and POTA *)
(* texts of a row is the block modelled by SpecFit.                         *)

MaxRows == 5          \* most records handed to the panel

\* available_height = section_height - header_height - 20
AvailableHeight(cfg) == SectionHeight(cfg) - cfg.ai_header_height - 20

\* total_row_height = base_row_height + row_spacing
TotalRowHeight(cfg) == cfg.base_row_height + cfg.row_spacing

\* mutant of InfoRowHeight: the rows are not shrunk to the available height
InfoRowHeight_NotShrunk(cfg, n) == Max(TotalRowHeight(cfg), 35)

\* mutant of InfoRowHeight: the floor total_row_height is not applied
InfoRowHeight_NoFloor(cfg, n) == Min(35, AvailableHeight(cfg) \div n)

\* info_row_height = max(total_row_height, min(35, available_height // len(contacts_with_info)))
InfoRowHeight(cfg, n) == Max(TotalRowHeight(cfg), Min(35, AvailableHeight(cfg) \div n))

\* info_y = section_y + header_height + 10 + (row_idx * info_row_height)
InfoY(cfg, row_idx, h) == SectionY(cfg) + cfg.ai_header_height + 10 + row_idx * h

\* mutant of RowFits: only the top of the row is tested
RowFits_TopOnly(cfg, row_idx, h) ==
    ~(InfoY(cfg, row_idx, h) > SectionY(cfg) + SectionHeight(cfg) - 5)

\* the negation of the break test: info_y + info_row_height > section_y + section_height - 5
RowFits(cfg, row_idx, h) ==
    ~(InfoY(cfg, row_idx, h) + h > SectionY(cfg) + SectionHeight(cfg) - 5)

\* max_comment_width: the configured comment_max_width when it is set (truthy),
\* else what is left of the panel behind the comment column
MaxCommentWidth(cfg) ==
    IF cfg.comment_max_width # 0
    THEN cfg.comment_max_width
    ELSE SectionWidth(cfg) - (ColComment(cfg) - SectionX(cfg)) - 80 - 30

\* char_width: the measured width of "M", or 8 when textbbox raises
CharWidth(mc) == IF mc.raised THEN 8 ELSE mc.width

\* mutant of MaxChars: no lower limit of 10 characters
MaxChars_NoFloor(cfg, char_width) == MaxCommentWidth(cfg) \div char_width

\* max_chars = max(10, max_comment_width // char_width)
MaxChars(cfg, char_width) == Max(10, MaxCommentWidth(cfg) \div char_width)

\* comment_text = comment[:max_chars-3] + "..." if len(comment) > max_chars else comment
CommentText(comment, max_chars) ==
    IF Len(comment) > max_chars THEN Take(comment, max_chars - 3) \o "..." ELSE comment

\* comment_end_x: the comment column when the row has no comment, else 15 px
\* behind the drawn comment, whose width is measured or len * char_width
CommentEndX(cfg, comment, comment_text, char_width, mw) ==
    IF comment = "" THEN ColComment(cfg)
    ELSE IF mw.raised
         THEN ColComment(cfg) + Len(comment_text) * char_width + 15
         ELSE ColComment(cfg) + mw.width + 15

NoRow == [ drawn |-> FALSE ]

\* what the loop body computes and draws for the record c at height y
RowOf(cfg, c, y, mc, mw) ==
    LET comment == c.comment_intl
        char_width == IF comment = "" THEN 0 ELSE CharWidth(mc)
        comment_text ==
            IF comment = "" THEN "" ELSE CommentText(comment, MaxChars(cfg, char_width))
        comment_end_x == CommentEndX(cfg, comment, comment_text, char_width, mw)
    IN  [ drawn |-> TRUE, rec |-> c, y |-> y,
          comment |-> comment, char_width |-> char_width,
          comment_width |-> IF comment = "" THEN 0
                            ELSE IF mw.raised THEN Len(comment_text) * char_width
                            ELSE mw.width,
          comment_text |-> comment_text, comment_end_x |-> comment_end_x,
          has_pota |-> c.pota_ref # "",
          pota_x |-> PotaX(cfg, comment # "", comment_end_x) ]

\* records of one callsign: without auxiliary data, with a comment, with a
\* POTA reference, and with both; the comments are 3, 10, 11 and 14 characters
InfoPool ==
    << Contact(<< "K", "A" >>, "20240101", "", ""),
       Contact(<< "K", "A" >>, "20240102", "", "tnx"),
       Contact(<< "K", "A" >>, "20240103", "K-1", ""),
       Contact(<< "K", "A" >>, "20240104", "", "tnx qso 73"),
       Contact(<< "K", "A" >>, "20240105", "K-1", "tnx fer qso"),
       Contact(<< "K", "A" >>, "20240106", "K-1", "tnx fer qso 73") >>

\* the n records of the pool that follow its k-th
InfoPage(n, k) == [ i \in 1..n |-> InfoPool[((i + k) % Len(InfoPool)) + 1] ]

\* panel heights 243, 139 and 69; row floors 27, 45 and 22; comment widths
\* 800, 88, 40 and not configured; page capacities 5 and 2
InfoConfigs ==
    { [ DefaultConfig EXCEPT !.card_height = h, !.base_row_height = g[1],
                             !.row_spacing = g[2], !.comment_max_width = cmw,
                             !.max_contacts = cap ] :
        h \in { 1050, 600, 300 }, g \in { << 22, 5 >>, << 40, 5 >>, << 22, 0 >> },
        cmw \in { 800, 88, 40, 0 }, cap \in { 5, 2 } }

\* outcomes of draw.textbbox for "M" and for the drawn comment
CharMeasures ==
    { [ raised |-> TRUE, width |-> 0 ] }
        \cup { [ raised |-> FALSE, width |-> w ] : w \in { 6, 8, 16 } }
CommentMeasures ==
    { [ raised |-> TRUE, width |-> 0 ] }
        \cup { [ raised |-> FALSE, width |-> w ] : w \in { 20, 165, 400 } }

InitInfo ==
    /\ IdleGen
    /\ fit = IdleFit
    /\ tbl = IdleTbl
    /\ fmt = IdleFmt
    /\ upd = IdleUpd
    /\ load = IdleLoad
    /\ op = IdleOp
    /\ config \in InfoConfigs
    /\ \E n \in 1..MaxRows, k \in 0..(Len(InfoPool) - 1) :
          info = [ pc |-> "begin", contacts |-> InfoPage(n, k), rows |-> << >>,
                   row_idx |-> 0, row_height |-> 0, drawn |-> << >>, row |-> NoRow ]

\* lines 1089-1138: the rows with auxiliary data and their height; the
\* function returns when there is none
InfoBegin ==
    /\ info.pc = "begin"
    /\ LET with_info == ContactsWithInfo(config, info.contacts)
       IN  info' = IF with_info = << >>
                   THEN [ info EXCEPT !.pc = "done" ]
                   ELSE [ info EXCEPT !.pc = "loop", !.rows = with_info,
                             !.row_height = InfoRowHeight(config, Len(with_info)) ]
    /\ UNCHANGED << config, genVars, fit, tbl, fmt, upd, load, op >>

\* one pass of the loop body for a row that fits
InfoDrawRow ==
    /\ info.pc = "loop"
    /\ info.row_idx < Len(info.rows)
    /\ RowFits(config, info.row_idx, info.row_height)
    /\ \E mc \in CharMeasures, mw \in CommentMeasures :
          LET c == info.rows[info.row_idx + 1]
              y == InfoY(config, info.row_idx, info.row_height)
              line == config.show_row_lines /\ info.row_idx < Len(info.rows) - 1
          IN  info' = [ info EXCEPT
                          !.row_idx = @ + 1,
                          !.drawn = Append(@, [ rec |-> c, y |-> y, line |-> line ]),
                          !.row = RowOf(config, c, y, mc, mw) ]
    /\ UNCHANGED << config, genVars, fit, tbl, fmt, upd, load, op >>

\* the break at the first row that does not fit
InfoBreak ==
    /\ info.pc = "loop"
    /\ info.row_idx < Len(info.rows)
    /\ ~RowFits(config, info.row_idx, info.row_height)
    /\ info' = [ info EXCEPT !.pc = "done" ]
    /\ UNCHANGED << config, genVars, fit, tbl, fmt, upd, load, op >>

\* the loop ends after the last row
InfoEnd ==
    /\ info.pc = "loop"
    /\ info.row_idx = Len(info.rows)
    /\ info' = [ info EXCEPT !.pc = "done" ]
    /\ UNCHANGED << config, genVars, fit, tbl, fmt, upd, load, op >>

NextInfo == InfoBegin \/ InfoDrawRow \/ InfoBreak \/ InfoEnd

SpecInfo == InitInfo /\ [][NextInfo]_vars

\* the panel has at least one data row and its row height has been computed
HasDataRows == info.pc \in { "loop", "done" } /\ info.rows # << >>

\* q is availableHeight / rowsWithData, rounded down
IsInfoQuotient(q) ==
    /\ q * Len(info.rows) <= AvailableHeight(config)
    /\ AvailableHeight(config) < (q + 1) * Len(info.rows)

\* max(floor, min(35, q)), written out
ClampedInfoHeight(q) ==
    LET capped == IF q > 35 THEN 35 ELSE q
    IN  IF capped < TotalRowHeight(config) THEN TotalRowHeight(config) ELSE capped

\* C12 as stated: with at least one data row the row height is
\* max(configured minimum, min(35, availableHeight / rowsWithData)), never below
\* the configured floor and never above 35 px, for every configuration.
C12_Original ==
    HasDataRows =>
        /\ \E q \in -100..400 : IsInfoQuotient(q) /\ info.row_height = ClampedInfoHeight(q)
        /\ info.row_height >= TotalRowHeight(config)
        /\ info.row_height <= 35

\* C12 amended: the row height is max(base_row_height + row_spacing,
\* min(35, availableHeight / rowsWithData)); it is never below that floor, it
\* is at most 35 px when the floor is at most 35, and it is the floor itself
\* when the floor exceeds 35.
C12_InfoRowHeight ==
    HasDataRows =>
        /\ \E q \in -100..400 : IsInfoQuotient(q) /\ info.row_height = ClampedInfoHeight(q)
        /\ info.row_height >= TotalRowHeight(config)
        /\ TotalRowHeight(config) <= 35 => info.row_height <= 35
        /\ TotalRowHeight(config) > 35 => info.row_height = TotalRowHeight(config)

\* three rows share 79 px: the quotient 26 lies between the floor 22 and 35
C12_Witness ==
    /\ info.pc = "done"
    /\ Len(info.rows) = 3
    /\ TotalRowHeight(config) = 22
    /\ info.row_height = 26
    /\ Len(info.drawn) > 0

\* y of the lower limit of the rows: panel top + panel height - 5
PanelLimit == SectionY(config) + SectionHeight(config) - 5

\* C13: every drawn row has its bottom edge (row top + row height) at or above
\* panel top + panel height - 5; the rows drawn are a prefix of the page's rows
\* with auxiliary data, the loop stopping without error at the first row that
\* does not fit.
C13_RowsFitPrefix ==
    /\ info.pc \in { "loop", "done" } =>
          /\ \A i \in 1..Len(info.drawn) :
                /\ info.drawn[i].y + info.row_height <= PanelLimit
                /\ info.drawn[i].y =
                      SectionY(config) + config.ai_header_height + 10
                          + (i - 1) * info.row_height
          /\ Len(info.drawn) <= Len(info.rows)
          /\ \A i \in 1..Len(info.drawn) : info.drawn[i].rec = info.rows[i]
    /\ (info.pc = "done" /\ Len(info.drawn) < Len(info.rows)) =>
          SectionY(config) + config.ai_header_height + 10
              + (Len(info.drawn) + 1) * info.row_height > PanelLimit

\* three of five rows were drawn, the fourth did not fit
C13_Witness ==
    /\ info.pc = "done"
    /\ Len(info.rows) = 5
    /\ Len(info.drawn) = 3

\* C14: in a drawn row with a POTA reference, the POTA text starts at the
\* larger of the configured POTA column and the end-x of the drawn comment when
\* the row has a comment, hence never left of the comment's right end, and at
\* the configured POTA column when it has none.
C14_PotaPosition ==
    (info.row.drawn /\ info.row.has_pota) =>
        IF info.row.comment # ""
        THEN /\ info.row.pota_x >= ColPota(config)
             /\ info.row.pota_x >= info.row.comment_end_x
             /\ info.row.pota_x \in { ColPota(config), info.row.comment_end_x }
             /\ info.row.pota_x >= ColComment(config) + info.row.comment_width
        ELSE info.row.pota_x = ColPota(config)

\* a measured comment of 400 px pushes the POTA text behind the POTA column
C14_Witness ==
    /\ info.row.drawn
    /\ info.row.has_pota
    /\ info.row.comment # ""
    /\ info.row.comment_width = 400
    /\ info.row.pota_x > ColPota(config)

\* text is the first k characters of comment followed by "..."
IsEllipsizedPrefix(text, comment) ==
    \E k \in 0..Len(comment) : text = SubSeq(comment, 1, k) \o "..."

-----------------------------------------------------------------------------
(* format_data: the field formatters, each applied to one raw value (or    *)
(* pair of values) of a record. Raw values are strings as load_contacts    *)
(* stores them: stripped of surrounding whitespace.                        *)

\* str.upper() on a string
RECURSIVE UpperStr(_)
UpperStr(s) == IF s = "" THEN "" ELSE UpperChar(Head(s)) \o UpperStr(Tail(s))

\* str.strip(): leading and trailing blanks removed
RECURSIVE LStrip(_)
LStrip(s) == IF s # "" /\ Head(s) = " " THEN LStrip(Tail(s)) ELSE s
RECURSIVE RStrip(_)
RStrip(s) ==
    IF s # "" /\ SubSeq(s, Len(s), Len(s)) = " " THEN RStrip(SubSeq(s, 1, Len(s) - 1)) ELSE s
Strip(s) == RStrip(LStrip(s))

\* mutant of format_mode: the digital-main test precedes the special table
format_mode_DigitalFirst(cfg, raw_mode, raw_submode) ==
    IF raw_mode = "" THEN "?"
    ELSE LET mode == UpperStr(Strip(raw_mode))
             submode == UpperStr(Strip(raw_submode))
             special == cfg.special_handling
         IN  IF mode \in cfg.digital_main
             THEN (IF submode # "" THEN submode ELSE mode)
             ELSE IF mode \in DOMAIN special THEN special[mode]
             ELSE IF (mode \o "/" \o submode) \in DOMAIN special
             THEN special[mode \o "/" \o submode]
             ELSE IF submode # "" /\ submode # mode
                  THEN Take(mode \o "/" \o submode, 10)
                  ELSE Take(mode, 8)

\* format_mode(mode, submode)
format_mode(cfg, raw_mode, raw_submode) ==
    IF raw_mode = "" THEN "?"
    ELSE LET mode == UpperStr(Strip(raw_mode))
             submode == UpperStr(Strip(raw_submode))
             special == cfg.special_handling
         IN  IF mode \in DOMAIN special THEN special[mode]
             ELSE IF (mode \o "/" \o submode) \in DOMAIN special
             THEN special[mode \o "/" \o submode]
             ELSE IF mode \in cfg.digital_main
             THEN (IF submode # "" THEN submode ELSE mode)
             ELSE IF submode # "" /\ submode # mode
                  THEN Take(mode \o "/" \o submode, 10)
                  ELSE Take(mode, 8)

-----------------------------------------------------------------------------
(* float(freq_str) and the "%.3f" / "%.0f" renderings, in exact decimal    *)
(* arithmetic. A parsed value is its sign, its integer part and the string *)
(* of its fractional digits. The raw strings drawn below have no exponent, *)
(* no digit-group underscores, and no value on an exact rounding tie of    *)
(* "%.3f", where the binary representation of the float decides.           *)

Digits == { "0", "1", "2", "3", "4", "5", "6", "7", "8", "9" }

DigitVal(c) ==
    CASE c = "0" -> 0 [] c = "1" -> 1 [] c = "2" -> 2 [] c = "3" -> 3 [] c = "4" -> 4
      [] c = "5" -> 5 [] c = "6" -> 6 [] c = "7" -> 7 [] c = "8" -> 8 [] c = "9" -> 9

RECURSIVE IsDigits(_)
IsDigits(s) == s = "" \/ (Head(s) \in Digits /\ IsDigits(Tail(s)))

\* the number written by a string of digits
RECURSIVE NatOf(_)
NatOf(s) ==
    IF s = "" THEN 0
    ELSE NatOf(SubSeq(s, 1, Len(s) - 1)) * 10 + DigitVal(SubSeq(s, Len(s), Len(s)))

\* the part of s in front of its first "."
RECURSIVE BeforeDot(_)
BeforeDot(s) == IF s = "" \/ Head(s) = "." THEN "" ELSE Head(s) \o BeforeDot(Tail(s))

\* the part of s behind its first "."
AfterDot(s) == SubSeq(s, Len(BeforeDot(s)) + 2, Len(s))

NotANumber == [ ok |-> FALSE, kind |-> "", neg |-> FALSE, int |-> 0, frac |-> "" ]

\* float(s): surrounding blanks and a sign are accepted, then either decimal
\* digits with at most one point, or one of the literals inf, infinity, nan in
\* any letter case; anything else raises ValueError
ParseFloat(s) ==
    LET t == Strip(s)
        signed == t # "" /\ Head(t) \in { "-", "+" }
        neg == t # "" /\ Head(t) = "-"
        u == IF signed THEN Tail(t) ELSE t
    IN  IF UpperStr(u) \in { "INF", "INFINITY" }
        THEN [ ok |-> TRUE, kind |-> "inf", neg |-> neg, int |-> 0, frac |-> "" ]
        ELSE IF UpperStr(u) = "NAN"
        THEN [ ok |-> TRUE, kind |-> "nan", neg |-> FALSE, int |-> 0, frac |-> "" ]
        ELSE IF /\ IsDigits(BeforeDot(u))
                /\ IsDigits(AfterDot(u))
                /\ BeforeDot(u) \o AfterDot(u) # ""
        THEN [ ok |-> TRUE, kind |-> "finite", neg |-> neg,
               int |-> NatOf(BeforeDot(u)), frac |-> AfterDot(u) ]
        ELSE NotANumber

\* the first k fractional digits as a number, and whether the digits behind
\* them round the value up
FracDigits(frac, k) == NatOf(SubSeq(frac \o "000000", 1, k))
RoundsUp(frac, k) == DigitVal(SubSeq(frac \o "0000000", k + 1, k + 1)) >= 5

\* freq > 1000
Above1000(p) ==
    \/ p.kind = "inf" /\ ~p.neg
    \/ p.kind = "finite" /\ ~p.neg
          /\ (p.int > 1000 \/ (p.int = 1000 /\ FracDigits(p.frac, 6) > 0))

\* mutant of Fixed3: the fractional digits are not padded with zeros
Fixed3_NoPadding(neg, thousandths) ==
    (IF neg THEN "-" ELSE "") \o ToString(thousandths \div 1000) \o "."
        \o ToString(thousandths % 1000)

\* "%.3f" of thousandths / 1000
Fixed3(neg, thousandths) ==
    LET r == thousandths % 1000
    IN  (IF neg THEN "-" ELSE "") \o ToString(thousandths \div 1000) \o "."
            \o (IF r < 10 THEN "00" ELSE IF r < 100 THEN "0" ELSE "") \o ToString(r)

\* how a float that is not finite is rendered by any "%.Nf"
NonFinite(p) == (IF p.neg THEN "-" ELSE "") \o p.kind

\* format_freq(freq_str): freq / 1000 has round(freq) thousandths
format_freq(freq_str) ==
    IF freq_str = "" THEN "?"
    ELSE LET p == ParseFloat(freq_str)
         IN  IF ~p.ok THEN Take(freq_str, 8)
             ELSE IF p.kind # "finite" THEN NonFinite(p)
             ELSE IF Above1000(p)
             THEN Fixed3(FALSE, p.int + (IF RoundsUp(p.frac, 0) THEN 1 ELSE 0))
             ELSE Fixed3(p.neg, p.int * 1000 + FracDigits(p.frac, 3)
                                   + (IF RoundsUp(p.frac, 3) THEN 1 ELSE 0))

\* raw freq values of a log: MHz and kHz figures, the limit 1000, text that is
\* no number, and the literals float() accepts
RawFreqs ==
    { "", "7.1", "7100", "7100000", "14.074", "14074", "1000", "1000.0", "1000.4",
      "1001", "999.9996", "0.5", "2500", "3500", "7300", "7300.2", "7.30001",
      "999999", "435", "-7.1", "7.1MHz", "14.074.5", "14,074", "ABCDEFGHIJ",
      "nan", "NaN", "inf", "Infinity" }

\* freq in MHz as its whole thousandths (khz) and whether nothing is left over
FreqMHz(p) ==
    IF Above1000(p)
    THEN [ khz |-> p.int, exact |-> NatOf(p.frac) = 0 ]
    ELSE [ khz |-> p.int * 1000 + FracDigits(p.frac, 3),
           exact |-> NatOf(SubSeq(p.frac, 4, Len(p.frac))) = 0 ]

\* min_f <= freq <= max_f, the limits of an entry being in thousandths of a MHz
InBand(entry, f) ==
    /\ entry.lo <= f.khz
    /\ f.khz < entry.hi \/ (f.khz = entry.hi /\ f.exact)

\* "%.0f" of freq: to the nearest integer, a tie to the even one
Fixed0(f) ==
    LET whole == f.khz \div 1000
        rem == f.khz % 1000
        up == \/ rem > 500
              \/ rem = 500 /\ (~f.exact \/ whole % 2 = 1)
    IN  ToString(IF up THEN whole + 1 ELSE whole)

\* get_band(freq_str): the band of the first matching entry
get_band(cfg, freq_str) ==
    IF freq_str = "" THEN ""
    ELSE LET p == ParseFloat(freq_str)
             f == FreqMHz(p)
             hits == { i \in 1..Len(cfg.bands) : InBand(cfg.bands[i], f) }
         IN  IF ~p.ok THEN ""
             ELSE IF p.kind # "finite" THEN NonFinite(p) \o "MHz"
             ELSE IF ~p.neg /\ hits # { }
             THEN cfg.bands[CHOOSE i \in hits : \A j \in hits : i <= j].band
             ELSE (IF p.neg THEN "-" ELSE "") \o Fixed0(f) \o "MHz"

\* contact.get('band', '') or get_band(contact.get('freq', ''))
BandOf(cfg, band, freq_str) == IF band # "" THEN band ELSE get_band(cfg, freq_str)

RawBands == { "", "40m", "20M" }

\* s.replace(':', '').replace('.', '')
RECURSIVE RemovePunct(_)
RemovePunct(s) ==
    IF s = "" THEN ""
    ELSE (IF Head(s) \in { ":", "." } THEN "" ELSE Head(s)) \o RemovePunct(Tail(s))

\* format_time(time_str)
format_time(time_str) ==
    IF time_str = "" THEN "?"
    ELSE LET clean == Strip(RemovePunct(time_str))
         IN  IF Len(clean) = 3 THEN "0" \o clean
             ELSE IF Len(clean) >= 4 THEN Take(clean, 4)
             ELSE Take(time_str, 4)

RawTimes ==
    { "", "1234", "12:34", "12:34:56", "123456", "930", "9:30", "12.34", "12",
      "1:2", "7", ":", "::", ".:.", "12:3x", "1 2:34" }

\* datetime.strptime(date_str, fmt) for the four patterns of format_date, and
\* strftime('%d-%b-%Y'). A field %m or %d is one or two digits, %Y exactly
\* four; the raw strings drawn below are ASCII and have no blank-padded day.

\* the part of s in front of its first ch, and the part behind it
RECURSIVE Before(_, _)
Before(s, ch) == IF s = "" \/ Head(s) = ch THEN "" ELSE Head(s) \o Before(Tail(s), ch)
After(s, ch) == SubSeq(s, Len(Before(s, ch)) + 2, Len(s))

\* the three fields of s around its first two ch, << >> when it has fewer
Fields(s, ch) ==
    IF Len(Before(s, ch)) < Len(s) /\ Len(Before(After(s, ch), ch)) < Len(After(s, ch))
    THEN << Before(s, ch), Before(After(s, ch), ch), After(After(s, ch), ch) >>
    ELSE << >>

\* days of month m in year y
DaysIn(y, m) ==
    IF m = 2
    THEN (IF y % 4 = 0 /\ (y % 100 # 0 \/ y % 400 = 0) THEN 29 ELSE 28)
    ELSE IF m \in { 4, 6, 9, 11 } THEN 30 ELSE 31

NoDate == [ ok |-> FALSE, y |-> 0, m |-> 0, d |-> 0 ]

\* the date of the matched fields; ValueError when a field does not match its
\* directive or the date does not exist
MakeDate(ys, ms, ds) ==
    LET field(t, hi) == Len(t) \in { 1, 2 } /\ IsDigits(t) /\ NatOf(t) \in 1..hi
    IN  IF /\ Len(ys) = 4 /\ IsDigits(ys) /\ NatOf(ys) >= 1
           /\ field(ms, 12) /\ field(ds, 31)
           /\ NatOf(ds) <= DaysIn(NatOf(ys), NatOf(ms))
        THEN [ ok |-> TRUE, y |-> NatOf(ys), m |-> NatOf(ms), d |-> NatOf(ds) ]
        ELSE NoDate

Strptime(s, pattern) ==
    LET dash == Fields(s, "-")
        slash == Fields(s, "/")
        rest == SubSeq(s, 5, Len(s))
        two == /\ Len(rest) >= 3
               /\ IsDigits(rest)
               /\ NatOf(SubSeq(rest, 1, 2)) \in 1..12
               /\ Len(rest) <= 4
               /\ NatOf(SubSeq(rest, 3, Len(rest))) \in 1..31
    IN  CASE pattern = "%Y-%m-%d" ->
               IF dash = << >> THEN NoDate ELSE MakeDate(dash[1], dash[2], dash[3])
          [] pattern = "%m/%d/%Y" ->
               IF slash = << >> THEN NoDate ELSE MakeDate(slash[3], slash[1], slash[2])
          [] pattern = "%d/%m/%Y" ->
               IF slash = << >> THEN NoDate ELSE MakeDate(slash[3], slash[2], slash[1])
          [] pattern = "%Y%m%d" ->
               \* the regular expression prefers the two-digit month
               IF Len(s) < 6 THEN NoDate
               ELSE IF two
               THEN MakeDate(SubSeq(s, 1, 4), SubSeq(rest, 1, 2), SubSeq(rest, 3, Len(rest)))
               ELSE MakeDate(SubSeq(s, 1, 4), SubSeq(rest, 1, 1), SubSeq(rest, 2, Len(rest)))

MonthNames ==
    << "Jan", "Feb", "Mar", "Apr", "May", "Jun", "Jul", "Aug", "Sep", "Oct", "Nov", "Dec" >>

\* strftime('%d-%b-%Y'): whether %Y pads a year below 1000 with zeros depends
\* on the platform's C library
Strftime(date, padded) ==
    (IF date.d < 10 THEN "0" ELSE "") \o ToString(date.d) \o "-" \o MonthNames[date.m]
        \o "-"
        \o (IF ~padded THEN ""
            ELSE IF date.y < 10 THEN "000" ELSE IF date.y < 100 THEN "00"
            ELSE IF date.y < 1000 THEN "0" ELSE "")
        \o ToString(date.y)

\* the patterns, in the order they are tried
DatePatterns == << "%Y-%m-%d", "%m/%d/%Y", "%d/%m/%Y", "%Y%m%d" >>

\* format_date(date_str)
format_date(date_str, padded) ==
    IF date_str = "" THEN "?"
    ELSE LET hits == { i \in 1..Len(DatePatterns) : Strptime(date_str, DatePatterns[i]).ok }
         IN  IF hits = { } THEN Take(date_str, 10)
             ELSE Strftime(Strptime(date_str,
                               DatePatterns[CHOOSE i \in hits : \A j \in hits : i <= j]),
                           padded)

RawDates ==
    { "", "2024-01-05", "2024-1-5", "01/02/2024", "13/01/2024", "12/13/2024",
      "02/30/2024", "31/04/2024", "29/02/2024", "29/02/2023", "20240105", "2024115",
      "202411", "20241305", "2024-01-05T10:00", "2024-13-01", "0099-01-01",
      "0000-01-01", "5 Jan 2024", "2024/01/05", "01/02/24", "2023-02-29", "20240230",
      "99991231", "2024011", "1900-02-29", "2000-02-29", "1/2/2024" }

\* (x or ""): an argument is << >> for None, else the one string it holds
OrEmpty(x) == IF x = << >> THEN "" ELSE x[1]

\* mutant of is_digital_mode: a submode of the digital-main list counts as well
is_digital_mode_SubmodeMain(cfg, mode_arg, submode_arg) ==
    LET mode == UpperStr(Strip(OrEmpty(mode_arg)))
        submode == UpperStr(Strip(OrEmpty(submode_arg)))
    IN  \/ mode \in cfg.digital
        \/ submode \in cfg.digital
        \/ mode \in cfg.digital_main
        \/ submode \in cfg.digital_main

\* is_digital_mode(mode, submode)
is_digital_mode(cfg, mode_arg, submode_arg) ==
    LET mode == UpperStr(Strip(OrEmpty(mode_arg)))
        submode == UpperStr(Strip(OrEmpty(submode_arg)))
    IN  \/ mode \in cfg.digital
        \/ submode \in cfg.digital
        \/ mode \in cfg.digital_main

\* contact.get('mode') and contact.get('submode'): None when the field is absent
OptModes ==
    { << >> } \cup { << m >> : m \in { "", "ft8", "SSB", "PSK", "CW", "MFSK", "psk31", "USB" } }

-----------------------------------------------------------------------------
(* One call of a formatter *)

\* the default mode tables, and a user table whose special pairs overlap the
\* digital-main list and each other
FmtConfigs ==
    { DefaultConfig,
      [ DefaultConfig EXCEPT !.special_handling =
          @ @@ ("SSB" :> "PHONE") @@ ("PSK/PSK31" :> "BPSK31") @@ ("RTTY" :> "TTY"),
                         !.bands =
          << [ lo |-> 7000, hi |-> 7100, band |-> "40m CW" ],
             [ lo |-> 7000, hi |-> 7300, band |-> "40m" ] >> ] }

RawModes ==
    { "", "FT8", "ft8", "SSB", "ssb", "MFSK", "PSK", "RTTY", "CW", "OLIVIA",
      "PACKETRADIO", "PHONE" }
RawSubmodes == { "", "USB", "lsb", "FT4", "PSK31", "CW", "OLIVIA 8/250", "C4FM" }

\* a formatter about to be called with the arguments a and b
FmtCall(fn, a, b) == [ pc |-> "call", fn |-> fn, a |-> a, b |-> b, out |-> "" ]

InitFmt ==
    /\ IdleGen
    /\ fit = IdleFit
    /\ tbl = IdleTbl
    /\ info = IdleInfo
    /\ upd = IdleUpd
    /\ load = IdleLoad
    /\ op = IdleOp
    /\ config \in FmtConfigs
    /\ \/ \E m \in RawModes, sm \in RawSubmodes : fmt = FmtCall("format_mode", m, sm)
       \/ \E f \in RawFreqs : fmt = FmtCall("format_freq", f, "")
       \/ \E bd \in RawBands, f \in RawFreqs : fmt = FmtCall("band", bd, f)
       \/ \E t \in RawTimes : fmt = FmtCall("format_time", t, "")
       \/ \E d \in RawDates : fmt = FmtCall("format_date", d, "")
       \/ \E m \in OptModes, sm \in OptModes : fmt = FmtCall("is_digital_mode", m, sm)

FormatMode ==
    /\ fmt.pc = "call"
    /\ fmt.fn = "format_mode"
    /\ fmt' = [ fmt EXCEPT !.pc = "returned", !.out = format_mode(config, fmt.a, fmt.b) ]
    /\ UNCHANGED << config, genVars, fit, tbl, info, upd, load, op >>

FormatFreq ==
    /\ fmt.pc = "call"
    /\ fmt.fn = "format_freq"
    /\ fmt' = [ fmt EXCEPT !.pc = "returned", !.out = format_freq(fmt.a) ]
    /\ UNCHANGED << config, genVars, fit, tbl, info, upd, load, op >>

\* the band element of the list format_data returns
FormatBand ==
    /\ fmt.pc = "call"
    /\ fmt.fn = "band"
    /\ fmt' = [ fmt EXCEPT !.pc = "returned", !.out = BandOf(config, fmt.a, fmt.b) ]
    /\ UNCHANGED << config, genVars, fit, tbl, info, upd, load, op >>

FormatTime ==
    /\ fmt.pc = "call"
    /\ fmt.fn = "format_time"
    /\ fmt' = [ fmt EXCEPT !.pc = "returned", !.out = format_time(fmt.a) ]
    /\ UNCHANGED << config, genVars, fit, tbl, info, upd, load, op >>

FormatDate ==
    /\ fmt.pc = "call"
    /\ fmt.fn = "format_date"
    /\ \E padded \in BOOLEAN :
          fmt' = [ fmt EXCEPT !.pc = "returned", !.out = format_date(fmt.a, padded) ]
    /\ UNCHANGED << config, genVars, fit, tbl, info, upd, load, op >>

IsDigitalMode ==
    /\ fmt.pc = "call"
    /\ fmt.fn = "is_digital_mode"
    /\ fmt' = [ fmt EXCEPT !.pc = "returned",
                           !.out = is_digital_mode(config, fmt.a, fmt.b) ]
    /\ UNCHANGED << config, genVars, fit, tbl, info, upd, load, op >>

NextFmt ==
    FormatMode \/ FormatFreq \/ FormatBand \/ FormatTime \/ FormatDate \/ IsDigitalMode

SpecFmt == InitFmt /\ [][NextFmt]_vars

Returned(fn) == fmt.pc = "returned" /\ fmt.fn = fn

\* C16: format_mode applies, after upper-casing mode and submode, a strict
\* precedence: empty mode gives "?"; a mode that is a key of the special table
\* gives its label; else a "mode/submode" key gives its label; else a mode of
\* the digital-main list gives the submode when non-empty, else the mode; else
\* "mode/submode" cut to 10 characters when the submode is non-empty and differs
\* from the mode, else the mode cut to 8. ("FT8", "") gives "FT8" and
\* ("SSB", "USB") gives "USB" under the default tables.
C16_ModePrecedence ==
    Returned("format_mode") =>
        LET M == UpperStr(fmt.a)
            S == UpperStr(fmt.b)
            pair == M \o "/" \o S
            table == config.special_handling
        IN  /\ fmt.a = "" => fmt.out = "?"
            /\ (fmt.a # "" /\ M \in DOMAIN table) => fmt.out = table[M]
            /\ (fmt.a # "" /\ M \notin DOMAIN table /\ pair \in DOMAIN table) =>
                  fmt.out = table[pair]
            /\ (fmt.a # "" /\ M \notin DOMAIN table /\ pair \notin DOMAIN table) =>
                  IF M \in config.digital_main
                  THEN fmt.out = (IF S # "" THEN S ELSE M)
                  ELSE IF S # "" /\ S # M
                       THEN fmt.out = SubSeq(pair, 1, Min(10, Len(pair)))
                       ELSE fmt.out = SubSeq(M, 1, Min(8, Len(M)))
            /\ (config = DefaultConfig /\ fmt.a = "FT8" /\ fmt.b = "") => fmt.out = "FT8"
            /\ (config = DefaultConfig /\ fmt.a = "SSB" /\ fmt.b = "USB") => fmt.out = "USB"

\* the pair key "PSK/PSK31" of a user table wins over the digital-main list
C16_Witness ==
    /\ Returned("format_mode")
    /\ fmt.a = "PSK"
    /\ fmt.b = "PSK31"
    /\ "PSK" \in config.digital_main
    /\ fmt.out = "BPSK31"

\* label is an integer nearest to the frequency f (in MHz) followed by "MHz"
IsRoundedMHz(label, f, neg) ==
    LET body == IF label # "" /\ Head(label) = "-" THEN Tail(label) ELSE label
        digits == SubSeq(body, 1, Len(body) - 3)
    IN  /\ Len(body) > 3
        /\ SubSeq(body, Len(body) - 2, Len(body)) = "MHz"
        /\ IsDigits(digits)
        /\ (Head(label) = "-") = neg
        /\ NatOf(digits) * 1000 - 500 <= f.khz
        /\ f.khz <= NatOf(digits) * 1000 + 500

\* C17: the band is the record's explicit band verbatim when that is non-empty,
\* whatever the frequency; otherwise, the frequency being parsed as a number
\* and divided by 1000 when above 1000, the band of the first table entry with
\* min <= freq <= max, and when none matches the frequency rounded to an integer
\* followed by "MHz"; it is "" when the frequency is empty or does not parse.
\* ("", "7100") gives "40m" and ("", "999999") a label ending in "MHz". A
\* literal float() accepts without its being a number (inf, nan) satisfies the
\* statement either way: as "" or as an integer followed by "MHz".
C17_BandResolution ==
    Returned("band") =>
        LET p == ParseFloat(fmt.b)
            f == FreqMHz(p)
            matches(i) == ~p.neg /\ InBand(config.bands[i], f)
            numeric == fmt.b # "" /\ p.ok
        IN  /\ fmt.a # "" => fmt.out = fmt.a
            /\ (fmt.a = "" /\ ~numeric) => fmt.out = ""
            /\ (fmt.a = "" /\ numeric /\ p.kind = "finite") =>
                  /\ \A i \in 1..Len(config.bands) :
                        (matches(i) /\ \A j \in 1..(i - 1) : ~matches(j)) =>
                            fmt.out = config.bands[i].band
                  /\ (\A i \in 1..Len(config.bands) : ~matches(i)) =>
                        IsRoundedMHz(fmt.out, f, p.neg)
            /\ (fmt.a = "" /\ numeric /\ p.kind # "finite") =>
                  fmt.out = "" \/ IsRoundedMHz(fmt.out, [ khz |-> 0, exact |-> TRUE ], FALSE)
            /\ (config = DefaultConfig /\ fmt.a = "" /\ fmt.b = "7100") => fmt.out = "40m"
            /\ (fmt.a = "" /\ fmt.b = "999999") =>
                  SubSeq(fmt.out, Len(fmt.out) - 2, Len(fmt.out)) = "MHz"

\* C17 restricted to the frequencies that are empty, decimal numerals, or
\* rejected by float(): the statement holds for these.
C17_DecimalInputs ==
    (Returned("band") /\ ParseFloat(fmt.b).kind \in { "", "finite" }) => C17_BandResolution

\* C18 as stated: format_freq("7100000") yields "7.100" and format_freq("7.1")
\* yields "7.100".
C18_Original ==
    Returned("format_freq") =>
        /\ fmt.a = "7100000" => fmt.out = "7.100"
        /\ fmt.a = "7.1" => fmt.out = "7.100"

\* C18 amended: a value above 1000 is divided by 1000 once, so "7100000"
\* yields "7100.000" and "7100" yields "7.100"; "7.1" yields "7.100".
C18_FreqExamples ==
    Returned("format_freq") =>
        /\ fmt.a = "7100000" => fmt.out = "7100.000"
        /\ fmt.a = "7100" => fmt.out = "7.100"
        /\ fmt.a = "7.1" => fmt.out = "7.100"

C18_Witness ==
    /\ Returned("format_freq")
    /\ fmt.a = "7100000"
    /\ fmt.out = "7100.000"

\* out is an optional "-", digits, ".", and exactly three digits
IsFixed3(out) ==
    LET body == IF out # "" /\ Head(out) = "-" THEN Tail(out) ELSE out
    IN  /\ BeforeDot(body) # ""
        /\ IsDigits(BeforeDot(body))
        /\ Len(AfterDot(body)) = 3
        /\ IsDigits(AfterDot(body))

\* the number of thousandths a rendering with three fractional digits shows
ShownThousandths(out) ==
    LET body == IF out # "" /\ Head(out) = "-" THEN Tail(out) ELSE out
    IN  NatOf(BeforeDot(body)) * 1000 + NatOf(AfterDot(body))

\* out shows the parsed value p, divided by 1000 only when it is above 1000,
\* with three fractional digits
ShowsFreq(out, p) ==
    /\ IsFixed3(out)
    /\ (Head(out) = "-") = p.neg
    /\ ShownThousandths(out) =
          IF ~p.neg /\ (p.int > 1000 \/ (p.int = 1000 /\ FracDigits(p.frac, 6) > 0))
          THEN p.int + (IF RoundsUp(p.frac, 0) THEN 1 ELSE 0)
          ELSE p.int * 1000 + FracDigits(p.frac, 3) + (IF RoundsUp(p.frac, 3) THEN 1 ELSE 0)

\* C19: format_freq returns "?" for the empty string; for a string that parses
\* as a number, the value divided by 1000 when strictly above 1000 and the value
\* itself otherwise (1000 is not divided), with exactly 3 fractional digits;
\* and the first 8 characters of the raw string when it does not parse. A
\* literal float() accepts without its being a number (inf, nan) satisfies the
\* statement either way: as a rendering with 3 fractional digits or as the
\* first 8 raw characters.
C19_FreqFormat ==
    Returned("format_freq") =>
        LET p == ParseFloat(fmt.a)
        IN  /\ fmt.a = "" => fmt.out = "?"
            /\ (fmt.a # "" /\ p.ok /\ p.kind = "finite") => ShowsFreq(fmt.out, p)
            /\ (fmt.a # "" /\ ~p.ok) => fmt.out = SubSeq(fmt.a, 1, Min(8, Len(fmt.a)))
            /\ (fmt.a # "" /\ p.ok /\ p.kind # "finite") =>
                  \/ IsFixed3(fmt.out)
                  \/ fmt.out = SubSeq(fmt.a, 1, Min(8, Len(fmt.a)))

\* C19 restricted to the strings that are empty, decimal numerals, or rejected
\* by float(): the statement holds for these.
C19_DecimalInputs ==
    (Returned("format_freq") /\ ParseFloat(fmt.a).kind \in { "", "finite" }) => C19_FreqFormat

\* the raw time without its ":" and "." characters
StrippedTime == Strip(RemovePunct(fmt.a))

\* C20: format_time first strips ":" and "."; when the stripped result is empty
\* it returns "?" (also for a non-empty raw string made only of ":" and ".");
\* when exactly 3 characters remain it returns them left-padded with "0"; when
\* 4 or more remain, the first 4; otherwise the first 4 characters of the
\* original raw string.
C20_TimeFormat ==
    Returned("format_time") =>
        /\ StrippedTime = "" => fmt.out = "?"
        /\ Len(StrippedTime) = 3 => fmt.out = "0" \o StrippedTime
        /\ Len(StrippedTime) >= 4 => fmt.out = SubSeq(StrippedTime, 1, 4)
        /\ Len(StrippedTime) \in { 1, 2 } => fmt.out = SubSeq(fmt.a, 1, Min(4, Len(fmt.a)))

\* C20 restricted to the raw strings that are empty or keep a character when
\* stripped: the statement holds for these.
C20_NotOnlyPunctuation ==
    (Returned("format_time") /\ (fmt.a = "" \/ StrippedTime # "")) => C20_TimeFormat

\* the pattern numbers under which the raw date parses
ParsingPatterns ==
    { i \in 1..4 :
        Strptime(fmt.a, << "%Y-%m-%d", "%m/%d/%Y", "%d/%m/%Y", "%Y%m%d" >>[i]).ok }

\* the date read by the first pattern that parses
FirstParse ==
    Strptime(fmt.a, << "%Y-%m-%d", "%m/%d/%Y", "%d/%m/%Y", "%Y%m%d" >>
                        [CHOOSE i \in ParsingPatterns : \A j \in ParsingPatterns : i <= j])

\* out is the date written as DD-Mon-YYYY
IsCanonicalDate(out, date) ==
    /\ Len(out) = 11
    /\ IsDigits(SubSeq(out, 1, 2)) /\ NatOf(SubSeq(out, 1, 2)) = date.d
    /\ SubSeq(out, 3, 3) = "-"
    /\ SubSeq(out, 4, 6) = MonthNames[date.m]
    /\ SubSeq(out, 7, 7) = "-"
    /\ IsDigits(SubSeq(out, 8, 11)) /\ NatOf(SubSeq(out, 8, 11)) = date.y

\* C21: format_date tries YYYY-MM-DD, MM/DD/YYYY, DD/MM/YYYY, YYYYMMDD in that
\* order and the first pattern that parses wins (a slash date valid under both
\* slash patterns is read month first; the day-first pattern is used only when
\* the first number cannot be a month); the result is re-emitted as
\* DD-Mon-YYYY; empty input gives "?", and non-empty input that matches no
\* pattern gives its first 10 characters.
C21_DateFormat ==
    Returned("format_date") =>
        /\ fmt.a = "" => fmt.out = "?"
        /\ (fmt.a # "" /\ ParsingPatterns = { }) =>
              fmt.out = SubSeq(fmt.a, 1, Min(10, Len(fmt.a)))
        /\ (fmt.a # "" /\ ParsingPatterns # { }) => IsCanonicalDate(fmt.out, FirstParse)
        /\ (fmt.a # "" /\ { 2, 3 } \subseteq ParsingPatterns) =>
              FirstParse.m = NatOf(Fields(fmt.a, "/")[1])
        /\ (fmt.a # "" /\ ParsingPatterns # { } /\ 3 \in ParsingPatterns
              /\ FirstParse.d = NatOf(Fields(fmt.a, "/")[1])
              /\ FirstParse.m = NatOf(Fields(fmt.a, "/")[2])
              /\ FirstParse.d # FirstParse.m) =>
              NatOf(Fields(fmt.a, "/")[1]) > 12

\* C21 restricted to raw dates that are empty, match no pattern, or lie in a
\* year of four significant digits: the statement holds for these.
C21_FourDigitYears ==
    (Returned("format_date") /\ (ParsingPatterns = { } \/ FirstParse.y >= 1000)) =>
        C21_DateFormat

\* the upper-cased text of an argument, "" for None
UpperArg(x) == IF x = << >> THEN "" ELSE UpperStr(x[1])

\* C22: is_digital_mode is true exactly when the upper-cased mode or the
\* upper-cased submode is in the digital set, or the upper-cased mode is in the
\* digital-main set (a submode that is only in the digital-main set does not
\* make it true); a missing or empty mode or submode is treated as "" and the
\* call returns.
C22_DigitalMode ==
    (fmt.pc \in { "call", "returned" } /\ fmt.fn = "is_digital_mode") =>
        /\ fmt.pc = "returned" =>
              fmt.out = (\/ UpperArg(fmt.a) \in config.digital
                         \/ UpperArg(fmt.b) \in config.digital
                         \/ UpperArg(fmt.a) \in config.digital_main)
        /\ (/\ fmt.pc = "returned"
            /\ UpperArg(fmt.b) \in config.digital_main \ config.digital
            /\ UpperArg(fmt.a) \notin config.digital \cup config.digital_main) =>
              fmt.out = FALSE
        /\ fmt.pc = "call" => ENABLED IsDigitalMode

\* a missing mode with the submode "PSK", which is in the digital-main set only
C22_Witness ==
    /\ Returned("is_digital_mode")
    /\ fmt.a = << >>
    /\ fmt.b = << "PSK" >>
    /\ fmt.out = FALSE

\* C23: a failure of text measurement never aborts the rendering of a page: at
\* every place where text is measured the failure is recovered by a
\* character-width estimate and the page is rendered to completion. Stated on
\* generate_cards: a run is left by an exception only while a finished page is
\* written, never while the page is still being rendered.
C23_MeasureFailureRecovered ==
    pc = "raised" => \E i \in 1..Len(canvas) : canvas[i].op = "info"

\* C24: during a generation run (generate_cards and all it calls) the
\* configuration, with its mode rule table and band table, and the loaded list
\* of contacts with each of its records keep the values they had before the
\* run: no step of the run changes them.
C24_InputsUnchanged ==
    [][config' = config /\ contacts' = contacts]_vars

\* a run over several records has gone through grouping, drawing and saving
C24_Witness ==
    /\ pc = "done"
    /\ Len(contacts) >= 2
    /\ cards_generated >= 2

-----------------------------------------------------------------------------
(* Start of the program: main, __init__ and the automatic update check *)

\* config['update']['last_check_date']: None, a string that is no ISO date, or
\* a date so many days before now
NoCheck == [ kind |-> "none", age |-> 0 ]
BadCheck == [ kind |-> "invalid", age |-> 0 ]
CheckedAt(age) == [ kind |-> "date", age |-> age ]

\* datetime.now().isoformat()
JustNow == CheckedAt(0)

LastChecks == { NoCheck, BadCheck, CheckedAt(3), CheckedAt(8) }

\* the 'update' section of the configuration load_config returned
UpdateSections ==
    [ github_repo : { "", "vazquezrodjoel/ham-qsl-generator" },
      check_on_startup : BOOLEAN,
      auto_check_interval_days : { 7 },
      last_check_date : LastChecks ]

\* the command line: --disable-update-check, one of the configuration
\* management options, and the positional csv_file
ArgSets ==
    [ disable_update_check : BOOLEAN, update_config : BOOLEAN, csv_file : BOOLEAN ]

InitUpd ==
    /\ IdleGen
    /\ config = DefaultConfig
    /\ fit = IdleFit
    /\ tbl = IdleTbl
    /\ info = IdleInfo
    /\ fmt = IdleFmt
    /\ load = IdleLoad
    /\ op = IdleOp
    /\ \E a \in ArgSets, u \in UpdateSections :
          upd = [ pc |-> "main", args |-> a, loaded |-> u, update |-> u, requests |-> 0 ]

\* main after parse_args: a configuration management option returns before a
\* generator is constructed, a missing csv_file is a usage error, otherwise
\* QSLCardGenerator(...) is called; args.disable_update_check is not read
Main ==
    /\ upd.pc = "main"
    /\ upd' = [ upd EXCEPT !.pc = IF upd.args.update_config \/ ~upd.args.csv_file
                                  THEN "exit"
                                  ELSE "init" ]
    /\ UNCHANGED << config, genVars, fit, tbl, info, fmt, load, op >>

\* __init__ after load_config: check_for_updates(force_check=False) is called
\* when config['update']['check_on_startup'] is true
Construct ==
    /\ upd.pc = "init"
    /\ upd' = [ upd EXCEPT !.pc = IF upd.update.check_on_startup THEN "check" ELSE "ready" ]
    /\ UNCHANGED << config, genVars, fit, tbl, info, fmt, load, op >>

\* the early returns of check_for_updates with force_check = False
SkipsRequest(u) ==
    \/ u.github_repo = ""
    \/ ~u.check_on_startup
    \/ /\ u.last_check_date.kind = "date"
       /\ u.last_check_date.age < u.auto_check_interval_days

\* check_for_updates(force_check=False): after the early returns one request is
\* sent to the releases API; update_last_check_date runs when the answer
\* carries a tag name, and every exception is caught
CheckForUpdates ==
    /\ upd.pc = "check"
    /\ \/ /\ SkipsRequest(upd.update)
          /\ upd' = [ upd EXCEPT !.pc = "ready" ]
       \/ /\ ~SkipsRequest(upd.update)
          /\ \E answered \in BOOLEAN :
                upd' = [ upd EXCEPT !.pc = "ready",
                                    !.requests = @ + 1,
                                    !.update.last_check_date =
                                        IF answered THEN JustNow ELSE @ ]
    /\ UNCHANGED << config, genVars, fit, tbl, info, fmt, load, op >>

NextUpd == Main \/ Construct \/ CheckForUpdates

SpecUpd == InitUpd /\ [][NextUpd]_vars

\* C25: a run started with --disable-update-check performs no automatic update
\* check: no request is sent to the releases API and last_check_date keeps the
\* value it was loaded with.
C25_DisabledMeansNoCheck ==
    (upd.pc # "idle" /\ upd.args.disable_update_check) =>
        /\ upd.requests = 0
        /\ upd.update.last_check_date = upd.loaded.last_check_date

\* what does switch the check off: check_on_startup false in the configuration
C25_ConfigSwitchOff ==
    (upd.pc # "idle" /\ ~upd.loaded.check_on_startup) =>
        /\ upd.requests = 0
        /\ upd.update.last_check_date = upd.loaded.last_check_date

-----------------------------------------------------------------------------
(* Configuration dictionaries: load_config and merge_configs *)

\* a JSON value: a dict of named values, or anything else (number, string,
\* list, null), which merge_configs treats as one opaque value
NoItems == [ k \in {} |-> 0 ]
Leaf(v) == [ dict |-> FALSE, value |-> v, items |-> NoItems ]
Dict(f) == [ dict |-> TRUE, value |-> 0, items |-> f ]

\* get_default_config, cut down to three sections and one nested section
DefaultTree ==
    Dict( "card" :> Dict("width" :> Leaf(1650))
       @@ "table" :> Dict("x" :> Leaf(50) @@ "max_contacts" :> Leaf(5))
       @@ "additional_info" :>
             Dict( "x" :> Leaf(50)
                @@ "columns" :> Dict( "comment_offset" :> Leaf(200)
                                   @@ "pota_offset" :> Leaf(400) ) ) )

\* merge_configs(default, user): a copy of default in which each user key is
\* merged recursively when both values are dicts and replaced otherwise
RECURSIVE merge_configs(_, _)
merge_configs(default, user) ==
    Dict([ k \in DOMAIN default.items \cup DOMAIN user.items |->
             IF k \in DOMAIN user.items
             THEN IF /\ k \in DOMAIN default.items
                     /\ default.items[k].dict
                     /\ user.items[k].dict
                  THEN merge_configs(default.items[k], user.items[k])
                  ELSE user.items[k]
             ELSE default.items[k] ])

\* the user's value in the files of the pool
UserValue == Leaf(7)

\* all dicts over some of the keys, each key with one of its allowed values
DictsOver(keys, allowed) ==
    { Dict(f) : f \in UNION { { g \in [ S -> UNION { allowed[k] : k \in keys } ] :
                                  \A k \in S : g[k] \in allowed[k] } : S \in SUBSET keys } }

UserColumns ==
    DictsOver({ "comment_offset", "pota_offset" },
              [ k \in { "comment_offset", "pota_offset" } |-> { UserValue } ])

UserCard == DictsOver({ "width" }, [ k \in { "width" } |-> { UserValue } ])

UserTable ==
    DictsOver({ "x", "max_contacts" }, [ k \in { "x", "max_contacts" } |-> { UserValue } ])

UserInfo ==
    DictsOver({ "x", "columns" },
              "x" :> { UserValue } @@ "columns" :> (UserColumns \cup { UserValue }))

\* user configurations: sections may be absent, partial, complete or given a
\* value that is no dict; "station" is a key the defaults do not have
UserTrees ==
    DictsOver({ "card", "table", "additional_info", "station" },
                 "card" :> (UserCard \cup { UserValue })
              @@ "table" :> (UserTable \cup { UserValue })
              @@ "additional_info" :> (UserInfo \cup { UserValue })
              @@ "station" :> { UserValue })

\* the configuration file before the call: absent, not parseable as JSON, or
\* holding a JSON value (a dict or a top-level value that is no dict)
NoFile == [ exists |-> FALSE, valid |-> FALSE, content |-> Leaf(0) ]
BrokenFile == [ exists |-> TRUE, valid |-> FALSE, content |-> Leaf(0) ]
FileOf(tree) == [ exists |-> TRUE, valid |-> TRUE, content |-> tree ]
ConfigFiles == { NoFile, BrokenFile, FileOf(UserValue) } \cup { FileOf(t) : t \in UserTrees }

\* json.load followed by merge_configs raises for a file that is not JSON and
\* for a top-level value without .items()
LoadRaises(file) == ~file.valid \/ ~file.content.dict

InitLoad ==
    /\ IdleGen
    /\ config = DefaultConfig
    /\ fit = IdleFit
    /\ tbl = IdleTbl
    /\ info = IdleInfo
    /\ fmt = IdleFmt
    /\ upd = IdleUpd
    /\ op = IdleOp
    /\ \E f \in ConfigFiles :
          load = [ pc |-> "call", before |-> f, file |-> f, result |-> Leaf(0) ]

\* load_config(config_file): the merge of an existing readable file; otherwise
\* the defaults, which save_config writes to config_file (a failed write is
\* only reported)
LoadConfig ==
    /\ load.pc = "call"
    /\ \/ /\ load.file.exists
          /\ ~LoadRaises(load.file)
          /\ load' = [ load EXCEPT !.pc = "returned",
                                   !.result = merge_configs(DefaultTree, load.file.content) ]
       \/ /\ ~load.file.exists \/ LoadRaises(load.file)
          /\ \E written \in BOOLEAN :
                load' = [ load EXCEPT !.pc = "returned",
                                      !.result = DefaultTree,
                                      !.file = IF written THEN FileOf(DefaultTree) ELSE @ ]
    /\ UNCHANGED << config, genVars, fit, tbl, info, fmt, upd, op >>

NextLoad == LoadConfig

SpecLoad == InitLoad /\ [][NextLoad]_vars

\* key paths of a tree, the root excluded
RECURSIVE Paths(_)
Paths(n) ==
    IF ~n.dict
    THEN { }
    ELSE UNION { { << k >> } \cup { << k >> \o q : q \in Paths(n.items[k]) } :
                 k \in DOMAIN n.items }

RECURSIVE Resolves(_, _)
Resolves(n, path) ==
    \/ path = << >>
    \/ /\ n.dict
       /\ Head(path) \in DOMAIN n.items
       /\ Resolves(n.items[Head(path)], Tail(path))

RECURSIVE Get(_, _)
Get(n, path) == IF path = << >> THEN n ELSE Get(n.items[Head(path)], Tail(path))

\* the paths at which a tree holds a value that is no dict
ValuePaths(n) == { q \in Paths(n) : ~Get(n, q).dict }

\* the user configuration of a call that loaded one
UserLoaded == load.pc = "returned" /\ load.before.exists /\ ~LoadRaises(load.before)

\* every value of the user is found at its path in the result
UserValuesKept ==
    \A q \in ValuePaths(load.before.content) :
        Resolves(load.result, q) /\ Get(load.result, q) = Get(load.before.content, q)

\* every default key path resolves, to the default where the user has no
\* value on the path
DefaultsFilled ==
    \A q \in Paths(DefaultTree) :
        /\ Resolves(load.result, q)
        /\ (~Get(DefaultTree, q).dict /\ ~Resolves(load.before.content, q)) =>
               Get(load.result, q) = Get(DefaultTree, q)

\* C26: for every user configuration loaded by load_config, every key path of
\* the default configuration resolves to a value in the result, the user's
\* value where the user supplied the path and the default where the key is
\* absent at any nesting level, and no user value is lost or replaced.
C26_MergeKeepsBoth ==
    UserLoaded => (UserValuesKept /\ DefaultsFilled)

\* no section of the defaults is given a value that is no dict
SectionsAreDicts(user) ==
    \A q \in Paths(DefaultTree) :
        (Get(DefaultTree, q).dict /\ Resolves(user, q)) => Get(user, q).dict

\* the merge is complete for user configurations whose sections are dicts
C26_SectionsAreDicts ==
    (UserLoaded /\ SectionsAreDicts(load.before.content)) =>
        (UserValuesKept /\ DefaultsFilled)

\* C27: for every configuration with min_row_height <= max_row_height and every
\* page of 1..max_contacts records, the top edge of the info panel is at or
\* below the bottom Y that draw_contact_table returns (header height plus rows
\* times row height plus 10 below the table top), so the panel never overlaps
\* a drawn table row.
C27_InfoBelowTable ==
    (tbl.pc = "drawn" /\ config.min_row_height <= config.max_row_height) =>
        SectionY(config) >= tbl.bottom

\* the panel is below the table when the row quotient is at least 5 px and is
\* not raised by min_row_height (ai_y_offset at its default of 10)
C27_QuotientNotRaised ==
    (/\ tbl.pc = "drawn"
     /\ \E q \in 5..400 : IsRowQuotient(q) /\ q >= config.min_row_height) =>
        SectionY(config) >= tbl.bottom

\* availableHeight // rowsWithData is at least the configured minimum row height
QuotientAtLeastFloor ==
    \E q \in 0..400 : IsInfoQuotient(q) /\ q >= TotalRowHeight(config)

\* C28: in the info panel, whenever availableHeight divided (integer division)
\* by the number of rows with auxiliary data is at least the configured minimum
\* row height, every one of those rows is drawn and none is omitted by the
\* overflow check: the bottom of the last row is at most panel top + panel
\* height - 5.
C28_AllRowsDrawn ==
    (HasDataRows /\ QuotientAtLeastFloor) =>
        /\ info.pc = "loop" => Len(info.drawn) = info.row_idx
        /\ (info.pc = "loop" /\ info.row_idx < Len(info.rows)) =>
              InfoY(config, info.row_idx, info.row_height) + info.row_height <= PanelLimit
        /\ info.pc = "done" =>
              /\ Len(info.drawn) = Len(info.rows)
              /\ \A i \in 1..Len(info.rows) : info.drawn[i].rec = info.rows[i]
              /\ info.drawn[Len(info.rows)].y + info.row_height <= PanelLimit

\* three rows shrunk to 26 px, between the floor of 22 and the cap of 35, all drawn
C28_Witness ==
    /\ info.pc = "done"
    /\ QuotientAtLeastFloor
    /\ Len(info.rows) = 3
    /\ Len(info.drawn) = 3
    /\ info.row_height = 26
    /\ TotalRowHeight(config) < 26

\* the drawn rows below which a horizontal rule was drawn
RuledRows == { i \in 1..Len(info.drawn) : info.drawn[i].line }

\* C29: with row lines enabled, a horizontal rule is drawn only between two
\* consecutive rows that are both drawn: the number of rules is the number of
\* drawn rows minus one and no rule is below the last drawn row, also when later
\* rows are omitted for lack of vertical space.
C29_RulesBetweenDrawnRows ==
    (info.pc = "done" /\ config.show_row_lines /\ Len(info.drawn) > 0) =>
        /\ Cardinality(RuledRows) = Len(info.drawn) - 1
        /\ Len(info.drawn) \notin RuledRows

\* the rules are as stated when no row is omitted
C29_NoRowOmitted ==
    (/\ info.pc = "done"
     /\ config.show_row_lines
     /\ Len(info.drawn) > 0
     /\ Len(info.drawn) = Len(info.rows)) =>
        RuledRows = 1..(Len(info.drawn) - 1)

-----------------------------------------------------------------------------
(* Configuration file operations: update_config_with_defaults and
   reset_config_with_backup *)

\* mutant of MissingKeys: every key of the defaults is reported
MissingKeys_AllDefaults(default, existing) == Paths(default)

\* find_missing_keys: the default keys that the existing dict lacks, looking
\* into a key's value only when both values are dicts
RECURSIVE MissingKeys(_, _)
MissingKeys(default, existing) ==
    UNION { IF k \notin DOMAIN existing.items
            THEN { << k >> }
            ELSE IF default.items[k].dict /\ existing.items[k].dict
                 THEN { << k >> \o q : q \in MissingKeys(default.items[k], existing.items[k]) }
                 ELSE { } :
            k \in DOMAIN default.items }

Operations == { "update_config_with_defaults", "reset_config_with_backup" }

InitOp ==
    /\ IdleGen
    /\ config = DefaultConfig
    /\ fit = IdleFit
    /\ tbl = IdleTbl
    /\ info = IdleInfo
    /\ fmt = IdleFmt
    /\ upd = IdleUpd
    /\ load = IdleLoad
    /\ \E fn \in Operations, f \in ConfigFiles :
          op = [ pc |-> "call", fn |-> fn, before |-> f, file |-> f, backup |-> NoFile,
                 existing |-> Dict(NoItems), log |-> << >>, result |-> "none",
                 failed |-> "none" ]

\* return False out of an except block
ReturnFalse(o, step) == [ o EXCEPT !.pc = "returned", !.result = "False", !.failed = step ]

\* shutil.copy2(config_file, backup_file): the backup holds the file's content,
\* or the copy raises and leaves at most a damaged backup
Copied(o) ==
    { [ o EXCEPT !.pc = "write", !.backup = o.file, !.log = Append(@, "backup") ] }
        \cup { ReturnFalse([ o EXCEPT !.backup = b ], "backup") : b \in { o.backup, BrokenFile } }

\* with open(config_file, 'w'): json.dump(tree): the file holds the tree, or
\* the write raises with the file as it was or truncated
Written(o, tree) ==
    { [ o EXCEPT !.pc = "returned", !.result = "True", !.file = FileOf(tree),
                 !.log = Append(@, "config") ],
      ReturnFalse(o, "write"),
      ReturnFalse([ o EXCEPT !.file = BrokenFile, !.log = Append(@, "config") ], "write") }

\* lines 73-81: the existing configuration is read, {} when there is no file
UpdateRead ==
    /\ op.pc = "call"
    /\ op.fn = "update_config_with_defaults"
    /\ \/ /\ ~op.file.exists
          /\ op' = [ op EXCEPT !.pc = "missing" ]
       \/ /\ op.file.exists
          /\ op.file.valid
          /\ op' = [ op EXCEPT !.pc = "missing", !.existing = op.file.content ]
       \/ /\ op.file.exists
          /\ op' = ReturnFalse(op, "read")
    /\ UNCHANGED << config, genVars, fit, tbl, info, fmt, upd, load >>

\* lines 83-101: nothing is missing and True is returned, or the merge is
\* computed; a top-level value that is no dict ends the call with an exception
UpdateFindMissing ==
    /\ op.pc = "missing"
    /\ op' = IF ~op.existing.dict
             THEN [ op EXCEPT !.pc = "returned", !.result = "raised" ]
             ELSE IF MissingKeys(DefaultTree, op.existing) = { }
                  THEN [ op EXCEPT !.pc = "returned", !.result = "True" ]
                  ELSE [ op EXCEPT !.pc = "backup" ]
    /\ UNCHANGED << config, genVars, fit, tbl, info, fmt, upd, load >>

\* lines 103-110: the backup of an existing file
UpdateBackup ==
    /\ op.pc = "backup"
    /\ IF op.file.exists
       THEN op' \in Copied(op)
       ELSE op' = [ op EXCEPT !.pc = "write" ]
    /\ UNCHANGED << config, genVars, fit, tbl, info, fmt, upd, load >>

\* lines 112-121: the merged configuration is written
UpdateWrite ==
    /\ op.pc = "write"
    /\ op.fn = "update_config_with_defaults"
    /\ op' \in Written(op, merge_configs(DefaultTree, op.existing))
    /\ UNCHANGED << config, genVars, fit, tbl, info, fmt, upd, load >>

\* lines 144-155: without a file the call goes on in create_default_config_file,
\* otherwise the file is copied to the time-stamped backup
ResetBackup ==
    /\ op.pc = "call"
    /\ op.fn = "reset_config_with_backup"
    /\ IF op.file.exists
       THEN op' \in Copied(op)
       ELSE op' = [ op EXCEPT !.pc = "create" ]
    /\ UNCHANGED << config, genVars, fit, tbl, info, fmt, upd, load >>

\* create_default_config_file for a file that does not exist
ResetCreate ==
    /\ op.pc = "create"
    /\ op' \in Written(op, DefaultTree)
    /\ UNCHANGED << config, genVars, fit, tbl, info, fmt, upd, load >>

\* lines 157-166: the defaults are written over the file
ResetWrite ==
    /\ op.pc = "write"
    /\ op.fn = "reset_config_with_backup"
    /\ op' \in Written(op, DefaultTree)
    /\ UNCHANGED << config, genVars, fit, tbl, info, fmt, upd, load >>

NextOp ==
    \/ UpdateRead \/ UpdateFindMissing \/ UpdateBackup \/ UpdateWrite
    \/ ResetBackup \/ ResetCreate \/ ResetWrite

SpecOp == InitOp /\ [][NextOp]_vars

\* a write to the named file was made during the operation
Logged(name) == \E i \in 1..Len(op.log) : op.log[i] = name

\* the existing configuration has every key path of the defaults
NothingMissing == \A q \in Paths(DefaultTree) : Resolves(op.existing, q)

\* C30: in update_config_with_defaults and reset_config_with_backup an existing
\* configuration file is overwritten only after a backup copy of its prior
\* content was written earlier in the same operation; when reading the file or
\* creating the backup fails the operation returns False and leaves the file
\* unmodified; update_config_with_defaults writes nothing at all when no
\* default key is missing.
C30_BackupBeforeOverwrite ==
    op.pc # "idle" =>
        /\ (op.before.exists /\ (op.file # op.before \/ Logged("config"))) =>
              /\ op.backup = op.before
              /\ op.log = << "backup", "config" >>
        /\ (op.pc = "returned" /\ op.failed \in { "read", "backup" }) =>
              /\ op.result = "False"
              /\ op.file = op.before
              /\ ~Logged("config")
        /\ (/\ op.pc = "returned"
            /\ op.fn = "update_config_with_defaults"
            /\ op.failed = "none"
            /\ op.existing.dict
            /\ op.before.exists
            /\ NothingMissing) =>
              /\ op.log = << >>
              /\ op.file = op.before
              /\ op.backup = NoFile
              /\ op.result = "True"

\* an incomplete configuration was backed up and then replaced by the merge
C30_Witness ==
    /\ op.pc = "returned"
    /\ op.fn = "update_config_with_defaults"
    /\ op.result = "True"
    /\ op.before.exists
    /\ op.backup = op.before
    /\ op.log = << "backup", "config" >>
    /\ op.file = FileOf(merge_configs(DefaultTree, op.before.content))
    /\ op.file # op.before

====
